---- MODULE Spec2Model ----
(***************************************************************************)
(* Model of genome_manager.py: the multi-mount registry of genome and      *)
(* user-defined-gene config files, the mountpoint transaction              *)
(* (add-mountpoint / remove-mountpoint) with its backup and restore, and   *)
(* the builders (register-genome, register-gene, update-gene).             *)
(*                                                                         *)
(* A path is a sequence of path components.  A dict is a sequence of       *)
(* [sys, p] entries where the insertion order matters (the code reads      *)
(* next(iter(paths.values()))), and a function otherwise.  An operator     *)
(* that models code which may raise returns [ok |-> BOOLEAN, v |-> value]. *)
(***************************************************************************)
EXTENDS Integers, Sequences, FiniteSets, TLC

\* ------------------------------------------------------------------ bounds
MaxOps == 3
MaxVersions == 3     \* gene-model versions per user-defined gene
MaxGeneVersions == 11    \* versions of a gene whose config is edited on its own

\* ------------------------------------------------- constants of the program
GENOMES_RELATIVE_PATH == "genomes"
USER_GENES_RELATIVE_PATH == "user_defined_genes"
GENOME_CLASS_MAIN_ATTR == <<"transcriptome_fasta", "refflat", "rrna_interval_list", "star_index">>
GENOME_CLASS_BASE_ATTR == <<"genome_fasta", "gtf">>
ChecksumSizeThreshold == 100000

\* ------------------------------------------------------- the input universe
SystemNames == {"a", "b", "c"}
\* registry roots as the different systems mount them; the last one has a
\* directory named like the genomes anchor in it
RegistryPaths == {<<"mnt", "a">>, <<"mnt", "b">>, <<"data", "genomes">>}
\* who issues a command: the path the registry is mounted at on that system and
\* the --system-name given there; the last caller gives system b's path the name c
Caller(registry_path, system_name) ==
    [registry_path |-> registry_path, system_name |-> system_name]
Callers == {Caller(<<"mnt", "a">>, "a"), Caller(<<"mnt", "b">>, "b"),
            Caller(<<"data", "genomes">>, "c"), Caller(<<"mnt", "b">>, "c")}
FirstCallers == {Caller(<<"mnt", "a">>, "a")}
GenomeIds == {"g1", "g2"}
\* the metadata files given to register-genome: a genome, and a second species
\* under the same id
GenomeInputs == {<<"109", "hs", "g1">>, <<"109", "mm", "g1">>}
\* how many of the six genome files are copied before a copy fails; 6: none fails
CopyCounts == {2, 6}
GeneIds == {"geneA", "geneB"}
FileSizes == {500, 200000}
Bodies == {1, 2}
\* a file a caller supplies: the gene identifier it declares (the gene_id of a
\* YAML gene model, the sequence name of a fasta), its bytes and its size
FileContents == [gene_id : GeneIds, body : Bodies, size : FileSizes]
DataFile == [gene_id |-> "", body |-> 0, size |-> 0]
FastaInputs == {c \in FileContents : c.body = 1 /\ c.size < ChecksumSizeThreshold}
YamlInputs == {c \in FileContents :
                  \/ c.gene_id = "geneA" /\ (c.body = 1 \/ c.size > ChecksumSizeThreshold)
                  \/ c.body = 1 /\ c.size < ChecksumSizeThreshold}

SeqToSet(s) == {s[i] : i \in 1..Len(s)}
GenomeAttrs == SeqToSet(GENOME_CLASS_BASE_ATTR) \cup SeqToSet(GENOME_CLASS_MAIN_ATTR)
Max(S) == CHOOSE x \in S : \A y \in S : y <= x

\* --------------------------------------------------------------- path dicts
PMKeys(pm) == {pm[i].sys : i \in 1..Len(pm)}
PMHas(pm, s) == s \in PMKeys(pm)
PMGet(pm, s) == pm[CHOOSE i \in 1..Len(pm) : pm[i].sys = s].p
\* an assignment that leaves the new entry alone in the dict
PMSetAlone(pm, s, p) == <<[sys |-> s, p |-> p]>>
\* paths[s] = p: a present key keeps its position, a new key goes last
PMSet(pm, s, p) ==
    IF PMHas(pm, s)
    THEN [i \in 1..Len(pm) |-> IF pm[i].sys = s THEN [sys |-> s, p |-> p] ELSE pm[i]]
    ELSE Append(pm, [sys |-> s, p |-> p])
PMDel(pm, s) == SelectSeq(pm, LAMBDA e : e.sys # s)

\* str.split(f'{split_keyword}/') on the posix form of a path: the text
\* "<keyword>/" occurs where the name of a component that is not the last one
\* ends with the keyword
NamePrefixes == {"", "my"}
EndsWith(name, kw) == \E pfx \in NamePrefixes : name = pfx \o kw
AnchorPositions(path, kw) == {i \in 1..(Len(path) - 1) : EndsWith(path[i], kw)}
RelPathAfter(path, kw) ==
    LET i == CHOOSE j \in AnchorPositions(path, kw) : TRUE
    IN  SubSeq(path, i + 1, Len(path))
\* a join that leaves the anchor directory out
JoinPathWithoutAnchor(base, kw, rel) == base \o rel
\* os.path.join(basepath, split_keyword, relpath)
JoinPath(base, kw, rel) == base \o <<kw>> \o rel

\* `_, relpath = Path(first).as_posix().split(kw + '/')` then os.path.join:
\* the unpacking needs exactly two parts, so exactly one occurrence
DeriveNewPath(paths, new_basepath, split_keyword) ==
    IF Len(paths) = 0 THEN [ok |-> FALSE, v |-> <<>>]
    ELSE LET first == paths[1].p
         IN  IF Cardinality(AnchorPositions(first, split_keyword)) # 1
             THEN [ok |-> FALSE, v |-> <<>>]
             ELSE [ok |-> TRUE,
                   v |-> JoinPath(new_basepath, split_keyword, RelPathAfter(first, split_keyword))]

add_new_system_path(paths, new_basepath, system_name, split_keyword) ==
    LET d == DeriveNewPath(paths, new_basepath, split_keyword)
    IN  IF d.ok THEN [ok |-> TRUE, v |-> PMSet(paths, system_name, d.v)]
        ELSE [ok |-> FALSE, v |-> paths]

\* a test of the new path that is made whatever the verify flag
VerifiedAlways(verify, new_path, existing) == new_path \in existing

\* `if verify: if not new_path.exists(): raise FileNotFoundError(new_path)`
Verified(verify, new_path, existing) == ~verify \/ new_path \in existing

\* add_new_basepath with the assignment of add_new_system_path: the entry of a
\* name that is present is overwritten
add_new_basepath_overwriting(paths, split_keyword, basepath, system_name, verify, existing) ==
    LET d == DeriveNewPath(paths, basepath, split_keyword)
    IN  IF ~d.ok THEN [ok |-> FALSE, v |-> paths, raised |-> "ValueError"]
        ELSE IF ~Verified(verify, d.v, existing)
        THEN [ok |-> FALSE, v |-> paths, raised |-> "FileNotFoundError"]
        ELSE [ok |-> TRUE, v |-> PMSet(paths, system_name, d.v), raised |-> ""]

\* add_new_basepath(attribute, split_keyword, basepath, system_name, verify) on
\* the attribute's path dict; existing is the set of paths on the caller's filesystem
add_new_basepath(paths, split_keyword, basepath, system_name, verify, existing) ==
    LET d == DeriveNewPath(paths, basepath, split_keyword)
    IN  IF ~d.ok THEN [ok |-> FALSE, v |-> paths, raised |-> "ValueError"]
        ELSE IF ~Verified(verify, d.v, existing)
        THEN [ok |-> FALSE, v |-> paths, raised |-> "FileNotFoundError"]
        ELSE IF PMHas(paths, system_name) THEN [ok |-> TRUE, v |-> paths, raised |-> ""]
        ELSE [ok |-> TRUE, v |-> Append(paths, [sys |-> system_name, p |-> d.v]),
              raised |-> ""]

\* ------------------------------------------------------------------ schemas
\* GenomeFile / GenomePath as serialised in a config file
Asset(type, default_system, active_system, path) ==
    [type |-> type, default_system |-> default_system,
     active_system |-> active_system, path |-> path]
NoAsset == Asset("", "", "", <<>>)
NoGene == [id |-> "", default_system |-> "", active_system |-> "",
           fasta |-> NoAsset, gene_model |-> <<>>]
\* a config file: its parsed content, or a file cut short by a failed write
GenomeConfFile(genomes) == [valid |-> TRUE, genomes |-> genomes]
TruncatedGenomeConf == [valid |-> FALSE, genomes |-> <<>>]
GeneConfFile(gene) == [valid |-> TRUE, gene |-> gene]
TruncatedGeneConf == [valid |-> FALSE, gene |-> NoGene]

\* ------------------------------------------------ edits of the raw structures
\* add_new_genome_mountpoint over the file attributes only, the index directory left out
add_new_genome_mountpoint_files_only(genome_dict, mountpoint, system_name) ==
    LET r == [k \in GenomeAttrs |->
                IF k = "star_index" THEN [ok |-> TRUE, v |-> genome_dict.assets[k].path]
                ELSE add_new_system_path(genome_dict.assets[k].path, mountpoint,
                                         system_name, GENOMES_RELATIVE_PATH)]
    IN  [ok |-> \A k \in GenomeAttrs : r[k].ok,
         v |-> [genome_dict EXCEPT !.assets =
                  [k \in GenomeAttrs |-> [genome_dict.assets[k] EXCEPT !.path = r[k].v]]]]

add_new_genome_mountpoint(genome_dict, mountpoint, system_name) ==
    LET r == [k \in GenomeAttrs |->
                add_new_system_path(genome_dict.assets[k].path, mountpoint,
                                    system_name, GENOMES_RELATIVE_PATH)]
    IN  [ok |-> \A k \in GenomeAttrs : r[k].ok,
         v |-> [genome_dict EXCEPT !.assets =
                  [k \in GenomeAttrs |-> [genome_dict.assets[k] EXCEPT !.path = r[k].v]]]]

\* dict.pop(system_name) raises KeyError for a key that is not there
remove_genome_mountpoint(genome_dict, system_name) ==
    [ok |-> \A k \in GenomeAttrs : PMHas(genome_dict.assets[k].path, system_name),
     v |-> [genome_dict EXCEPT !.assets =
              [k \in GenomeAttrs |->
                 [genome_dict.assets[k] EXCEPT !.path = PMDel(@, system_name)]]]]

\* `for version, in gene_dict['gene_model']` unpacks each key of the JSON
\* object, a string, into one character
add_new_usergene_mountpoint(gene_dict, mountpoint, system_name) ==
    LET f == add_new_system_path(gene_dict.fasta.path, mountpoint, system_name,
                                 USER_GENES_RELATIVE_PATH)
        m == [n \in DOMAIN gene_dict.gene_model |->
                add_new_system_path(gene_dict.gene_model[n].path, mountpoint,
                                    system_name, USER_GENES_RELATIVE_PATH)]
    IN  [ok |-> /\ f.ok
                /\ \A n \in DOMAIN gene_dict.gene_model : Len(ToString(n)) = 1 /\ m[n].ok,
         v |-> [gene_dict EXCEPT !.fasta.path = f.v,
                  !.gene_model = [n \in DOMAIN gene_dict.gene_model |->
                                    [gene_dict.gene_model[n] EXCEPT !.path = m[n].v]]]]

\* remove_usergene_mountpoint over the gene models only, the fasta left out
remove_usergene_mountpoint_models_only(gene_dict, system_name) ==
    [ok |-> \A n \in DOMAIN gene_dict.gene_model : PMHas(gene_dict.gene_model[n].path, system_name),
     v |-> [gene_dict EXCEPT
              !.gene_model = [n \in DOMAIN gene_dict.gene_model |->
                                [gene_dict.gene_model[n] EXCEPT !.path = PMDel(@, system_name)]]]]

remove_usergene_mountpoint(gene_dict, system_name) ==
    [ok |-> /\ PMHas(gene_dict.fasta.path, system_name)
            /\ \A n \in DOMAIN gene_dict.gene_model :
                  PMHas(gene_dict.gene_model[n].path, system_name),
     v |-> [gene_dict EXCEPT !.fasta.path = PMDel(@, system_name),
              !.gene_model = [n \in DOMAIN gene_dict.gene_model |->
                                [gene_dict.gene_model[n] EXCEPT !.path = PMDel(@, system_name)]]]]

set_active_system_genome(genome_collection, system_name) ==
    [g \in DOMAIN genome_collection |->
       [genome_collection[g] EXCEPT !.active_system = system_name,
          !.assets = [k \in GenomeAttrs |->
                        [genome_collection[g].assets[k] EXCEPT !.active_system = system_name]]]]

set_active_system_user_defined_gene(user_gene, system_name) ==
    [user_gene EXCEPT !.active_system = system_name,
       !.fasta.active_system = system_name,
       !.gene_model = [n \in DOMAIN user_gene.gene_model |->
                         [user_gene.gene_model[n] EXCEPT !.active_system = system_name]]]

\* -------------------------------------------------------------------- state
VARIABLES
    mounts_json,       \* .conf/mounts.json: [state, default_system_name, mounts]
    genome_registry,   \* .conf/genome-registry: release file name -> config file
    user_registry,     \* .conf/user-registry: gene id -> config file
    disk,              \* files under genomes/ and user_defined_genes/: relative path -> content
    recovery,          \* .tmp/genome_recovery and .tmp/user_gene_recovery
    pc,                \* position of the running operation, "idle" between operations
    txn,               \* locals of the running mountpoint operation
    pre,               \* the persisted registry when the running operation began
    last,              \* the operation that is returning and how it ended
    ops,               \* number of operations issued
    probe              \* arguments and results of a function applied on its own

vars == <<mounts_json, genome_registry, user_registry, disk, recovery, pc, txn, pre, last, ops, probe>>

NoMounts == [state |-> "absent", default_system_name |-> "", mounts |-> <<>>]
Mountpoints(default_system_name, mounts) ==
    [state |-> "ok", default_system_name |-> default_system_name, mounts |-> mounts]
TruncatedMounts == [state |-> "truncated", default_system_name |-> "", mounts |-> <<>>]
NoDir == [exists |-> FALSE, files |-> <<>>]
Dir(files) == [exists |-> TRUE, files |-> files]
NoBackup == [genome |-> NoDir, user |-> NoDir]
NoTxn == [mode |-> "", registry_path |-> <<>>, system_name |-> "", remove_system_name |-> "",
          mount_config |-> NoMounts, new_genomes |-> <<>>, new_genes |-> <<>>,
          failed |-> "", wrote |-> FALSE]
NoProbe == [f |-> "none"]
NoResult == [op |-> "none", status |-> "ok", args |-> <<>>, failure |-> "none", asked |-> FALSE,
             raised |-> ""]
NoSnapshot == [mounts_json |-> NoMounts, genome_registry |-> <<>>, user_registry |-> <<>>,
               disk |-> <<>>, recovery |-> NoBackup]
Persisted == [mounts_json |-> mounts_json, genome_registry |-> genome_registry,
              user_registry |-> user_registry, disk |-> disk, recovery |-> recovery]
\* status: "ok" returned normally, "error" raised, "cancelled" returned at the
\* prompt; failure: what went wrong inside, "none" when nothing did; asked:
\* whether the operator was prompted
\* raised: the exception that reaches the caller, "" when the command returns
Result(op, status, args, failure) ==
    [op |-> op, status |-> status, args |-> args, failure |-> failure, asked |-> FALSE,
     raised |-> IF status = "error" THEN failure ELSE ""]

\* ------------------------------------------------------ the caller's filesystem
\* A caller that reaches the registry under registry_path sees the file of
\* relative path rel at registry_path/rel.
IsUnder(registry_path, p) ==
    /\ Len(p) > Len(registry_path)
    /\ SubSeq(p, 1, Len(registry_path)) = registry_path
RelOf(registry_path, p) == SubSeq(p, Len(registry_path) + 1, Len(p))
FileExists(registry_path, p) ==
    IsUnder(registry_path, p) /\ RelOf(registry_path, p) \in DOMAIN disk
FileAt(registry_path, p) == disk[RelOf(registry_path, p)]
DirExists(rel) == \E f \in DOMAIN disk : Len(f) > Len(rel) /\ SubSeq(f, 1, Len(rel)) = rel

\* ----------------------------------------------------------- schema validation
\* GenomeFile.add_checksum: stat and hash the file at path[active_system]
\* (GenomeFile.validate_path also opens it when the type is yaml_gene_model)
ValidGenomeFile(asset, registry_path) ==
    /\ PMHas(asset.path, asset.active_system)
    /\ FileExists(registry_path, PMGet(asset.path, asset.active_system))

\* GenomePath has no validator that touches the filesystem
ValidGenome(genome, registry_path) ==
    \A k \in GenomeAttrs \ {"star_index"} : ValidGenomeFile(genome.assets[k], registry_path)

ValidGenomeCollection(genomes, registry_path) ==
    \A g \in DOMAIN genomes : ValidGenome(genomes[g], registry_path)

DeclaredId(asset, registry_path) ==
    FileAt(registry_path, PMGet(asset.path, asset.active_system)).gene_id

\* UserDefinedGene: validate_gene_model, validate_fasta, validate_id
ValidUserDefinedGene(gene, registry_path) ==
    /\ DOMAIN gene.gene_model # {}
    /\ \A n \in DOMAIN gene.gene_model : ValidGenomeFile(gene.gene_model[n], registry_path)
    /\ \A n, m \in DOMAIN gene.gene_model :
          DeclaredId(gene.gene_model[n], registry_path) = DeclaredId(gene.gene_model[m], registry_path)
    /\ ValidGenomeFile(gene.fasta, registry_path)
    /\ DeclaredId(gene.fasta, registry_path) =
          DeclaredId(gene.gene_model[CHOOSE n \in DOMAIN gene.gene_model :
                                        \A m \in DOMAIN gene.gene_model : n <= m], registry_path)
    /\ gene.id = DeclaredId(gene.gene_model[Max(DOMAIN gene.gene_model)], registry_path)

\* GenomeFile.add_checksum: the file size above the threshold, the md5 of the bytes below
Checksum(content) ==
    IF content.size > ChecksumSizeThreshold
    THEN [kind |-> "int", of |-> <<content.size>>]
    ELSE [kind |-> "md5", of |-> <<content.gene_id, content.body, content.size>>]

SameChecksum(c1, c2) == c1.kind = c2.kind /\ c1.of = c2.of

\* -------------------------------------------------- update_config_mountpoint
\* json.load of every config file of both directories and the edit of each, in
\* memory; json.load raises on a file that a failed write cut short
update_config_mountpoint(registry_path, system_name, mode, remove_system_name) ==
    LET eg == [c \in DOMAIN genome_registry |->
                 [g \in DOMAIN genome_registry[c].genomes |->
                    IF mode = "add"
                    THEN add_new_genome_mountpoint(genome_registry[c].genomes[g],
                                                   registry_path, system_name)
                    ELSE remove_genome_mountpoint(genome_registry[c].genomes[g],
                                                  remove_system_name)]]
        eu == [c \in DOMAIN user_registry |->
                 IF mode = "add"
                 THEN add_new_usergene_mountpoint(user_registry[c].gene,
                                                  registry_path, system_name)
                 ELSE remove_usergene_mountpoint(user_registry[c].gene, remove_system_name)]
    IN  [ok |-> /\ \A c \in DOMAIN genome_registry :
                     /\ genome_registry[c].valid
                     /\ \A g \in DOMAIN eg[c] : eg[c][g].ok
                /\ \A c \in DOMAIN user_registry : user_registry[c].valid /\ eu[c].ok,
         genomes |-> [c \in DOMAIN genome_registry |-> [g \in DOMAIN eg[c] |-> eg[c][g].v]],
         genes |-> [c \in DOMAIN user_registry |-> eu[c].v]]

\* open(path, 'w') then f.write: a failure leaves the file as it was (open
\* failed) or cut short (the write failed after the truncation)
WriteOutcomes == {"written", "unchanged", "truncated"}

\* ----------------------------------------------------------------- initialize
Init ==
    /\ mounts_json = NoMounts
    /\ genome_registry = <<>>
    /\ user_registry = <<>>
    /\ disk = <<>>
    /\ recovery = NoBackup
    /\ pc = "idle"
    /\ txn = NoTxn
    /\ pre = NoSnapshot
    /\ last = NoResult
    /\ ops = 0
    /\ probe = NoProbe

initialize(registry_path, system_name) ==
    /\ pc = "idle"
    /\ mounts_json.state = "absent"
    /\ mounts_json' = Mountpoints(system_name, <<[sys |-> system_name, p |-> registry_path]>>)
    /\ pre' = Persisted
    /\ pc' = "return"
    /\ last' = Result("init", "ok", <<registry_path, system_name>>, "none")
    /\ UNCHANGED <<genome_registry, user_registry, disk, recovery, txn, ops, probe>>

\* ------------------------------------------------- the mountpoint transaction
\* One step of the try block may fail (an edit, a validation, a write); the
\* except and finally blocks that answer it run to their end.
CanIssue == pc = "idle" /\ mounts_json.state # "absent" /\ ops < MaxOps

\* the command returns or raises to its caller
Return ==
    /\ pc = "return"
    /\ pc' = "idle"
    /\ last' = NoResult
    /\ pre' = NoSnapshot
    /\ txn' = NoTxn
    /\ UNCHANGED <<mounts_json, genome_registry, user_registry, disk, recovery, ops, probe>>

Begin(mode, args, system_name) ==
    /\ pc' = "backup"
    /\ txn' = [NoTxn EXCEPT !.mode = mode, !.registry_path = args[1],
                 !.system_name = system_name,
                 !.remove_system_name = IF mode = "remove" THEN args[2] ELSE "",
                 !.mount_config = mounts_json]
    /\ pre' = Persisted
    /\ last' = [Result(mode \o "_mountpoint", "running", args, "none")
                 EXCEPT !.asked = (mode = "remove")]

Refuse(op, status, args, failure) ==
    /\ pc' = "return"
    /\ txn' = NoTxn
    /\ pre' = Persisted
    /\ last' = Result(op, status, args, failure)

\* a duplicate test that looks at the first entry of the table only
DuplicateMountOfFirst(mounts, registry_path, system_name) ==
    Len(mounts) > 0 /\ (mounts[1].sys = system_name \/ mounts[1].p = registry_path)

\* the duplicate test by name alone
DuplicateMountName(mounts, registry_path, system_name) ==
    \E i \in 1..Len(mounts) : mounts[i].sys = system_name

\* add_mountpoint up to the backup: load the mount table, refuse a name or a
\* path that is registered
DuplicateMount(mounts, registry_path, system_name) ==
    \E i \in 1..Len(mounts) : mounts[i].sys = system_name \/ mounts[i].p = registry_path

add_mountpoint(registry_path, system_name) ==
    /\ CanIssue
    /\ ops' = ops + 1
    /\ IF mounts_json.state # "ok" \/ DuplicateMount(mounts_json.mounts, registry_path, system_name)
       THEN Refuse("add_mountpoint", "error", <<registry_path, system_name>>, "precondition")
       ELSE Begin("add", <<registry_path, system_name>>, system_name)
    /\ UNCHANGED <<mounts_json, genome_registry, user_registry, disk, recovery, probe>>

\* find_active_system: the first system whose registered path is registry_path
ActiveSystems(mounts, registry_path) ==
    {mounts[i].sys : i \in {j \in 1..Len(mounts) : mounts[j].p = registry_path}}
find_active_system(mounts, registry_path) ==
    mounts[CHOOSE i \in 1..Len(mounts) :
             /\ mounts[i].p = registry_path
             /\ \A j \in 1..(i - 1) : mounts[j].p # registry_path].sys

\* what the operator types at the prompt
Confirmations == {"CONFIRM", "confirm", "yes"}
\* a prompt that takes any answer for a yes
ConfirmedByAnyAnswer(confirmation) == confirmation \in Confirmations
Confirmed(confirmation) == confirmation = "CONFIRM"

\* the protected mounts without the default
ProtectedMountIssuingOnly(mount_config, active_system_name, remove_system_name) ==
    remove_system_name = active_system_name

\* the two protected mounts: the one the command is issued from and the default
ProtectedMount(mount_config, active_system_name, remove_system_name) ==
    \/ remove_system_name = active_system_name
    \/ mount_config.default_system_name = remove_system_name

\* remove_mountpoint up to the backup: the protected mounts, then the prompt
\* (which prints mounts[remove_system_name])
remove_mountpoint(registry_path, remove_system_name, confirmation) ==
    /\ CanIssue
    /\ ops' = ops + 1
    /\ LET args == <<registry_path, remove_system_name, confirmation>>
       IN  IF \/ mounts_json.state # "ok"
              \/ ActiveSystems(mounts_json.mounts, registry_path) = {}
              \/ ProtectedMount(mounts_json,
                                find_active_system(mounts_json.mounts, registry_path),
                                remove_system_name)
              \/ ~PMHas(mounts_json.mounts, remove_system_name)
           THEN Refuse("remove_mountpoint", "error", args, "precondition")
           ELSE IF ~Confirmed(confirmation)
           THEN /\ pc' = "return"
                /\ txn' = NoTxn
                /\ pre' = Persisted
                /\ last' = [Result("remove_mountpoint", "cancelled", args, "none")
                             EXCEPT !.asked = TRUE]
           ELSE Begin("remove", args, find_active_system(mounts_json.mounts, registry_path))
    /\ UNCHANGED <<mounts_json, genome_registry, user_registry, disk, recovery, probe>>

\* a copytree that makes the destination and copies nothing into it
CopyTreeDirOnly(src_files, dst) == Dir(dst.files)

\* shutil.copytree(src, dst, dirs_exist_ok=True): the files of src over dst
CopyTree(src_files, dst) == Dir(src_files @@ dst.files)
Restrict(f, S) == [x \in S |-> f[x]]

\* the two copytree calls of the backup; a failure of the first leaves what it
\* copied (its name was never bound), a failure of the second removes the
\* first backup and leaves what the second copied
Backup ==
    /\ pc = "backup"
    /\ \/ /\ recovery' = [genome |-> CopyTree(genome_registry, recovery.genome),
                          user |-> CopyTree(user_registry, recovery.user)]
          /\ pc' = "edit"
          /\ UNCHANGED <<txn, last>>
       \/ \E S \in SUBSET DOMAIN genome_registry, made \in BOOLEAN :
            /\ recovery' = [recovery EXCEPT !.genome =
                              IF made THEN CopyTree(Restrict(genome_registry, S), @) ELSE @]
            /\ pc' = "return"
            /\ txn' = [txn EXCEPT !.failed = "backup"]
            /\ last' = [last EXCEPT !.status = "error", !.failure = "backup", !.raised = "backup"]
       \/ \E S \in SUBSET DOMAIN user_registry, made \in BOOLEAN :
            /\ recovery' = [genome |-> NoDir,
                            user |-> IF made THEN CopyTree(Restrict(user_registry, S), recovery.user)
                                     ELSE recovery.user]
            /\ pc' = "return"
            /\ txn' = [txn EXCEPT !.failed = "backup"]
            /\ last' = [last EXCEPT !.status = "error", !.failure = "backup", !.raised = "backup"]
    /\ UNCHANGED <<mounts_json, genome_registry, user_registry, disk, pre, ops, probe>>

\* update_config_mountpoint: every edit is held in memory, nothing is written
Edit ==
    /\ pc = "edit"
    /\ LET r == update_config_mountpoint(txn.registry_path, txn.system_name, txn.mode,
                                         txn.remove_system_name)
       IN  \/ /\ r.ok
              /\ txn' = [txn EXCEPT !.new_genomes = r.genomes, !.new_genes = r.genes]
              /\ pc' = "write"
           \/ /\ txn' = [txn EXCEPT !.failed = "edit"]
              /\ pc' = "restore"
    /\ UNCHANGED <<mounts_json, genome_registry, user_registry, disk, recovery, pre, last, ops, probe>>

\* one turn of `for config, genome_dict in new_genomes.items()`: set the active
\* system, validate against the schema, overwrite the config file
WriteGenomeConfig ==
    /\ pc = "write"
    /\ \E c \in DOMAIN txn.new_genomes :
         LET genome_dict == set_active_system_genome(txn.new_genomes[c], txn.system_name)
         IN  \E outcome \in WriteOutcomes :
               IF outcome = "written" /\ ValidGenomeCollection(genome_dict, txn.registry_path)
               THEN /\ genome_registry' = [genome_registry EXCEPT ![c] = GenomeConfFile(genome_dict)]
                    /\ txn' = [txn EXCEPT !.wrote = TRUE,
                                 !.new_genomes = Restrict(@, DOMAIN @ \ {c})]
                    /\ pc' = "write"
               ELSE /\ genome_registry' =
                         IF outcome = "truncated"
                         THEN [genome_registry EXCEPT ![c] = TruncatedGenomeConf]
                         ELSE genome_registry
                    /\ txn' = [txn EXCEPT !.failed = IF outcome = "written" THEN "validate" ELSE "write",
                                 !.wrote = (@ \/ outcome = "truncated")]
                    /\ pc' = "restore"
    /\ UNCHANGED <<mounts_json, user_registry, disk, recovery, pre, last, ops, probe>>

\* one turn of `for config, gene_dict in new_genes.items()`, after the genome files
WriteGeneConfig ==
    /\ pc = "write"
    /\ DOMAIN txn.new_genomes = {}
    /\ \E c \in DOMAIN txn.new_genes :
         LET gene_dict == set_active_system_user_defined_gene(txn.new_genes[c], txn.system_name)
         IN  \E outcome \in WriteOutcomes :
               IF outcome = "written" /\ ValidUserDefinedGene(gene_dict, txn.registry_path)
               THEN /\ user_registry' = [user_registry EXCEPT ![c] = GeneConfFile(gene_dict)]
                    /\ txn' = [txn EXCEPT !.wrote = TRUE,
                                 !.new_genes = Restrict(@, DOMAIN @ \ {c})]
                    /\ pc' = "write"
               ELSE /\ user_registry' =
                         IF outcome = "truncated"
                         THEN [user_registry EXCEPT ![c] = TruncatedGeneConf]
                         ELSE user_registry
                    /\ txn' = [txn EXCEPT !.failed = IF outcome = "written" THEN "validate" ELSE "write",
                                 !.wrote = (@ \/ outcome = "truncated")]
                    /\ pc' = "restore"
    /\ UNCHANGED <<mounts_json, genome_registry, disk, recovery, pre, last, ops, probe>>

\* mount_config.mounts[system_name] = Path(registry_path), or
\* mount_config.mounts.pop(remove_system_name, None)
NewMountConfig(t) ==
    [t.mount_config EXCEPT !.mounts =
        IF t.mode = "add" THEN PMSet(@, t.system_name, t.registry_path)
        ELSE PMDel(@, t.remove_system_name)]

\* a mount table written as soon as the genome config files are
GenomeConfigsWritten(t) == DOMAIN t.new_genomes = {}

\* both loops of the try block have run to their end: no edited structure is
\* left to validate and write
AllConfigsWritten(t) == DOMAIN t.new_genomes = {} /\ DOMAIN t.new_genes = {}

\* write_mount_config, the last statement of the try block
WriteMountConfig ==
    /\ pc = "write"
    /\ AllConfigsWritten(txn)
    /\ \E outcome \in WriteOutcomes :
         IF outcome = "written"
         THEN /\ mounts_json' = NewMountConfig(txn)
              /\ pc' = "cleanup"
              /\ UNCHANGED txn
         ELSE /\ mounts_json' = IF outcome = "truncated" THEN TruncatedMounts ELSE mounts_json
              /\ txn' = [txn EXCEPT !.failed = "mounts"]
              /\ pc' = "restore"
    /\ UNCHANGED <<genome_registry, user_registry, disk, recovery, pre, last, ops, probe>>

\* a copytree that keeps the files the destination has
RestoreDirMissingOnly(backup, config_dir) == config_dir @@ backup.files

\* shutil.copytree(backup, config_dir, dirs_exist_ok=True)
RestoreDir(backup, config_dir) == backup.files @@ config_dir

\* the except block: copy both backups over the config directories
Restore ==
    /\ pc = "restore"
    /\ genome_registry' = RestoreDir(recovery.genome, genome_registry)
    /\ user_registry' = RestoreDir(recovery.user, user_registry)
    /\ pc' = "cleanup"
    /\ UNCHANGED <<mounts_json, disk, recovery, txn, pre, last, ops, probe>>

\* the finally block: remove both backups, then return or re-raise
Cleanup ==
    /\ pc = "cleanup"
    /\ recovery' = NoBackup
    /\ pc' = "return"
    /\ last' = [last EXCEPT !.status = IF txn.failed = "" THEN "ok" ELSE "error",
                             !.failure = IF txn.failed = "" THEN "none" ELSE "transaction",
                             !.raised = IF txn.failed = "" THEN "" ELSE "transaction"]
    /\ UNCHANGED <<mounts_json, genome_registry, user_registry, disk, txn, pre, ops, probe>>

\* -------------------------------------------------------------------- builders
ReleaseDir(release) == <<GENOMES_RELATIVE_PATH, "release-" \o release>>
GenomeDir(release, species) == ReleaseDir(release) \o <<species>>
\* write_genome_files: source/, derived/ and the index directory, in this order
GenomeFileOrder ==
    <<"genome_fasta", "gtf", "transcriptome_fasta", "refflat", "rrna_interval_list", "star_index">>
GenomeFileRel(release, species, k) ==
    GenomeDir(release, species) \o
        (IF k \in {"genome_fasta", "gtf"} THEN <<"source", k>>
         ELSE IF k = "star_index" THEN <<"star-index">>
         ELSE <<"derived", k>>)
CopiedGenomeFiles(release, species, n) ==
    [f \in {GenomeFileRel(release, species, GenomeFileOrder[i]) : i \in 1..n} |-> DataFile]
GenomeAssetType(k) ==
    IF k \in {"genome_fasta", "transcriptome_fasta"} THEN "fasta"
    ELSE IF k = "gtf" THEN "gtf" ELSE k

\* Genome.add_new_mountpoint / UserDefinedGene.add_new_mountpoint for every
\* registered mount: add_new_basepath without verification on each attribute
RECURSIVE AddKnownMounts(_, _, _)
AddKnownMounts(paths, split_keyword, mounts) ==
    IF Len(mounts) = 0 THEN [ok |-> TRUE, v |-> paths]
    ELSE LET r == add_new_basepath(paths, split_keyword, mounts[1].p, mounts[1].sys, FALSE, {})
         IN  IF r.ok THEN AddKnownMounts(r.v, split_keyword, Tail(mounts)) ELSE r

\* the Genome record build_new_genome constructs, with every registered mount attached
NewGenome(registry_path, system_name, mount_config, release, species, id) ==
    LET r == [k \in GenomeAttrs |->
                AddKnownMounts(<<[sys |-> system_name,
                                  p |-> registry_path \o GenomeFileRel(release, species, k)]>>,
                               GENOMES_RELATIVE_PATH, mount_config.mounts)]
    IN  [ok |-> \A k \in GenomeAttrs : r[k].ok,
         v |-> [id |-> id, default_system |-> mount_config.default_system_name,
                active_system |-> system_name, species |-> species, release |-> release,
                assets |-> [k \in GenomeAttrs |->
                              Asset(GenomeAssetType(k), mount_config.default_system_name,
                                    system_name, r[k].v)]]]

\* f"{str(genome_metadata['release']).zfill(3)}.json"
Zfill3(s) == IF Len(s) = 1 THEN "00" \o s ELSE IF Len(s) = 2 THEN "0" \o s ELSE s
ConfName(release) == Zfill3(release) \o ".json"

\* the except block of build_new_genome: rmtree of the genome directory, then
\* rmdir of the release directory, which raises OSError in place of the error
\* being handled when another species is left in it
RecoveryResult(result, release) ==
    IF DirExists(ReleaseDir(release)) THEN [result EXCEPT !.raised = "OSError"] ELSE result

\* a cleanup that removes the release directory with all that is in it
BuildCleanupWholeRelease(files, release, species) ==
    Restrict(files, {f \in DOMAIN files :
                       ~(Len(f) > 2 /\ SubSeq(f, 1, 2) = ReleaseDir(release))})

\* the except block of build_new_genome on the files of the registry:
\* shutil.rmtree(genome_dir); genome_dir.parent.rmdir() removes the release
\* directory only when nothing is left in it
BuildCleanup(files, release, species) ==
    Restrict(files, {f \in DOMAIN files :
                       ~(Len(f) > 3 /\ SubSeq(f, 1, 3) = GenomeDir(release, species))})

\* register_genome -> build_new_genome.  copied < 6: a copy of write_genome_files
\* failed after that many files; outcome: how the write of the config file went
register_genome(registry_path, system_name, release, species, id, copied, outcome) ==
    /\ CanIssue
    /\ ops' = ops + 1
    /\ LET args == <<registry_path, system_name, release, species, id>>
           conf == ConfName(release)
           with_files == CopiedGenomeFiles(release, species, 6) @@ disk
           built == NewGenome(registry_path, system_name, mounts_json, release, species, id)
           loaded == IF conf \in DOMAIN genome_registry
                     THEN set_active_system_genome(genome_registry[conf].genomes, system_name)
                     ELSE <<>>
           load_ok == \/ conf \notin DOMAIN genome_registry
                      \/ /\ genome_registry[conf].valid
                         /\ ValidGenomeCollection(loaded, registry_path)
       IN  IF DirExists(GenomeDir(release, species)) \/ mounts_json.state # "ok"
           THEN /\ last' = Result("register_genome", "error", args, "precondition")
                /\ UNCHANGED <<disk, genome_registry>>
           ELSE IF copied < 6
           THEN /\ disk' = CopiedGenomeFiles(release, species, copied) @@ disk
                /\ last' = Result("register_genome", "error", args, "copy")
                /\ UNCHANGED genome_registry
           ELSE IF ~built.ok \/ ~load_ok \/ (conf \in DOMAIN genome_registry /\ id \in DOMAIN loaded)
           THEN /\ disk' = BuildCleanup(with_files, release, species)
                /\ last' = RecoveryResult(
                              Result("register_genome", "error", args,
                                     IF ~built.ok THEN "mounts" ELSE IF ~load_ok THEN "load"
                                     ELSE "duplicate"), release)
                /\ UNCHANGED genome_registry
           ELSE IF outcome = "written"
           THEN /\ disk' = with_files
                /\ genome_registry' = ((conf :> GenomeConfFile((id :> built.v) @@ loaded))
                                        @@ genome_registry)
                /\ last' = Result("register_genome", "ok", args, "none")
           ELSE /\ disk' = BuildCleanup(with_files, release, species)
                /\ genome_registry' =
                     IF outcome = "truncated"
                     THEN (conf :> TruncatedGenomeConf) @@ genome_registry
                     ELSE genome_registry
                /\ last' = RecoveryResult(Result("register_genome", "error", args, "write"),
                                           release)
    /\ pc' = "return"
    /\ pre' = Persisted
    /\ UNCHANGED <<mounts_json, user_registry, recovery, txn, probe>>

GeneDir(id) == <<USER_GENES_RELATIVE_PATH, id>>
FastaRel(id) == GeneDir(id) \o <<id \o ".fa">>
\* str(version).zfill(2)
Zfill2(n) == IF Len(ToString(n)) < 2 THEN "0" \o ToString(n) ELSE ToString(n)
YamlName(id, version) == id \o "_v" \o Zfill2(version) \o ".yaml"

NewGene(registry_path, system_name, mount_config, id) ==
    LET f == AddKnownMounts(<<[sys |-> system_name, p |-> registry_path \o FastaRel(id)]>>,
                            USER_GENES_RELATIVE_PATH, mount_config.mounts)
        y == AddKnownMounts(<<[sys |-> system_name,
                               p |-> registry_path \o GeneDir(id) \o <<YamlName(id, 1)>>]>>,
                            USER_GENES_RELATIVE_PATH, mount_config.mounts)
    IN  [ok |-> f.ok /\ y.ok,
         v |-> [id |-> id, default_system |-> mount_config.default_system_name,
                active_system |-> system_name,
                fasta |-> Asset("fasta", mount_config.default_system_name, system_name, f.v),
                gene_model |-> (1 :> Asset("yaml_gene_model", mount_config.default_system_name,
                                           system_name, y.v))]]

\* register_user_defined_gene -> build_new_user_defined_gene, then the write of
\* the gene's config file.  copy_ok: whether the copies into the gene directory went through
register_user_defined_gene(fasta, yaml_file, system_name, registry_path, copy_ok, outcome) ==
    /\ CanIssue
    /\ ops' = ops + 1
    /\ LET args == <<registry_path, system_name, yaml_file, fasta>>
           id == yaml_file.gene_id
           files == (FastaRel(id) :> fasta) @@ ((GeneDir(id) \o <<YamlName(id, 1)>>) :> yaml_file)
           built == NewGene(registry_path, system_name, mounts_json, id)
       IN  IF \/ mounts_json.state # "ok"
              \/ ~PMHas(mounts_json.mounts, system_name)
              \/ DirExists(GeneDir(id))
           THEN /\ last' = Result("register_gene", "error", args, "precondition")
                /\ UNCHANGED <<disk, user_registry>>
           ELSE IF ~copy_ok \/ fasta.gene_id # id \/ ~built.ok
           THEN /\ last' = Result("register_gene", "error", args, "build")
                /\ UNCHANGED <<disk, user_registry>>
           ELSE /\ disk' = files @@ disk
                /\ user_registry' =
                     IF outcome = "written" THEN (id :> GeneConfFile(built.v)) @@ user_registry
                     ELSE IF outcome = "truncated" THEN (id :> TruncatedGeneConf) @@ user_registry
                     ELSE user_registry
                /\ last' = IF outcome = "written" THEN Result("register_gene", "ok", args, "none")
                           ELSE Result("register_gene", "error", args, "write")
    /\ pc' = "return"
    /\ pre' = Persisted
    /\ UNCHANGED <<mounts_json, genome_registry, recovery, txn, probe>>

\* sorted(self.gene_model.keys()): the integer keys in ascending order
RECURSIVE Sorted(_)
Sorted(S) ==
    IF S = {} THEN <<>>
    ELSE LET least == CHOOSE x \in S : \A y \in S : x <= y
         IN  <<least>> \o Sorted(S \ {least})

\* get_version resolving the code -1 to the first of the sorted keys
get_version_first(gene, version, system_name) ==
    LET keys == Sorted(DOMAIN gene.gene_model)
        v == IF version < 0 THEN keys[1] ELSE version
    IN  PMGet(gene.gene_model[v].path, system_name)

\* UserDefinedGene.get_version: the path of a version under a system name, the
\* latest version for a negative version number
get_version(gene, version, system_name) ==
    LET keys == Sorted(DOMAIN gene.gene_model)
        v == IF version < 0 THEN keys[Len(keys)] ELSE version
    IN  PMGet(gene.gene_model[v].path, system_name)

\* the comparison against the latest version alone
DuplicateOfLatest(gene, yaml_file, system_name, registry_path) ==
    SameChecksum(Checksum(yaml_file),
                 Checksum(FileAt(registry_path,
                                 PMGet(gene.gene_model[Max(DOMAIN gene.gene_model)].path,
                                       system_name))))

\* `for version, next_model in self.gene_model.items()`: the checksum of the
\* new model against the checksum of every stored one
DuplicateModel(gene, yaml_file, system_name, registry_path) ==
    \E n \in DOMAIN gene.gene_model :
       SameChecksum(Checksum(yaml_file),
                    Checksum(FileAt(registry_path, PMGet(gene.gene_model[n].path, system_name))))

\* UserDefinedGene.add_version on the loaded gene: [ok, failure, gene, dest];
\* dest is the relative path of the file it copies in, copy_ok whether
\* shutil.copy went through
add_version(gene, yaml_file, system_name, registry_path, copy_ok) ==
    LET latest_version == Max(DOMAIN gene.gene_model)
        this_version == latest_version + 1
        \* list(self.gene_model.values())[-1]: the entry inserted last
        prior_yaml_path == PMGet(gene.gene_model[latest_version].path, system_name)
        yaml_dest == SubSeq(prior_yaml_path, 1, Len(prior_yaml_path) - 1)
                        \o <<YamlName(gene.id, this_version)>>
        new_model == Asset("yaml_gene_model", gene.default_system, system_name,
                           <<[sys |-> system_name, p |-> yaml_dest]>>)
        duplicate == DuplicateModel(gene, yaml_file, system_name, registry_path)
    IN  [ok |-> copy_ok /\ ~duplicate,
         failure |-> IF ~copy_ok THEN "copy" ELSE IF duplicate THEN "duplicate" ELSE "none",
         gene |-> IF copy_ok /\ ~duplicate
                  THEN [gene EXCEPT !.gene_model = (this_version :> new_model) @@ @]
                  ELSE gene,
         version |-> this_version,
         dest |-> RelOf(registry_path, yaml_dest)]

\* a lookup that takes the config file of one gene whatever the model declares
ModelGeneIdOfGeneA(yaml_file) == "geneA"

\* gene_model_from_yaml(yaml_file).gene_id: the identifier the model declares,
\* which names the config file update-gene loads
ModelGeneId(yaml_file) == yaml_file.gene_id

\* a recovery that writes the prior content back and keeps the copied file
RewriteRecoveryKeepingFile(files, yaml_dest) == files

\* the except block of update_user_defined_gene on the files of the registry:
\* Path(yaml_dest).unlink() when the copied file exists
RewriteRecovery(files, yaml_dest) == Restrict(files, DOMAIN files \ {yaml_dest})

\* how the try block of update_user_defined_gene goes: the outcomes of the
\* write, or a failure of the read that holds the prior content
UpdateOutcomes == WriteOutcomes \cup {"unread"}

\* update_user_defined_gene: load the gene with the caller's system active, add
\* the version, rewrite the config file; a failed rewrite is answered by writing
\* the prior content back and deleting the copied file, and is not raised again;
\* after a failed read the except block stops at the name original_registry_file,
\* which was never bound, before it deletes the copied file
update_user_defined_gene(registry_path, yaml_file, system_name, copy_ok, outcome) ==
    /\ CanIssue
    /\ ops' = ops + 1
    /\ LET id == ModelGeneId(yaml_file)
           args == <<registry_path, system_name, yaml_file>>
           gene == set_active_system_user_defined_gene(user_registry[id].gene, system_name)
       IN  IF \/ id \notin DOMAIN user_registry
              \/ ~user_registry[id].valid
              \/ ~ValidUserDefinedGene(gene, registry_path)
           THEN /\ last' = Result("update_gene", "error", args, "load")
                /\ UNCHANGED <<disk, user_registry>>
           ELSE LET r == add_version(gene, yaml_file, system_name, registry_path, copy_ok)
                IN  /\ r.version <= MaxVersions
                    /\ IF ~r.ok
                       THEN /\ last' = Result("update_gene", "error", args, r.failure)
                            /\ disk' = Restrict(disk, DOMAIN disk \ {r.dest})
                            /\ UNCHANGED user_registry
                       ELSE IF outcome = "written"
                       THEN /\ disk' = (r.dest :> yaml_file) @@ disk
                            /\ user_registry' = [user_registry EXCEPT ![id] = GeneConfFile(r.gene)]
                            /\ last' = Result("update_gene", "ok", args, "none")
                       ELSE IF outcome = "unread"
                       THEN /\ disk' = (r.dest :> yaml_file) @@ disk
                            /\ UNCHANGED user_registry
                            /\ last' = [Result("update_gene", "error", args, "read")
                                         EXCEPT !.raised = "UnboundLocalError"]
                       ELSE /\ disk' = RewriteRecovery((r.dest :> yaml_file) @@ disk, r.dest)
                            /\ UNCHANGED user_registry
                            /\ last' = Result("update_gene", "ok", args, "write")
    /\ pc' = "return"
    /\ pre' = Persisted
    /\ UNCHANGED <<mounts_json, genome_registry, recovery, txn, probe>>

Next ==
    \/ \E c \in FirstCallers : initialize(c.registry_path, c.system_name)
    \/ \E c \in Callers : add_mountpoint(c.registry_path, c.system_name)
    \/ \E c \in Callers, s \in SystemNames, answer \in Confirmations :
          remove_mountpoint(c.registry_path, s, answer)
    \/ \E c \in Callers, g \in GenomeInputs, n \in CopyCounts, o \in WriteOutcomes :
          register_genome(c.registry_path, c.system_name, g[1], g[2], g[3], n, o)
    \/ \E c \in Callers, fa \in FastaInputs, y \in YamlInputs, copy_ok \in BOOLEAN,
          o \in WriteOutcomes :
          register_user_defined_gene(fa, y, c.system_name, c.registry_path, copy_ok, o)
    \/ \E c \in Callers, y \in YamlInputs, copy_ok \in BOOLEAN, o \in UpdateOutcomes :
          update_user_defined_gene(c.registry_path, y, c.system_name, copy_ok, o)
    \/ Backup
    \/ Edit
    \/ WriteGenomeConfig
    \/ WriteGeneConfig
    \/ WriteMountConfig
    \/ Restore
    \/ Cleanup
    \/ Return

Spec == Init /\ [][Next]_vars

\* ------------------------------------------- add_new_basepath applied on its own
ProbeFile == <<"release-109", "hs", "source", "genome_fasta">>
ProbePath(base) == JoinPath(base, GENOMES_RELATIVE_PATH, ProbeFile)
ProbeEntries == [sys : SystemNames, p : {ProbePath(b) : b \in RegistryPaths}]
\* the path dicts an attribute can hold: one or two entries under different names
ProbePathDicts ==
    {<<e>> : e \in ProbeEntries}
        \cup {<<e, f>> : <<e, f>> \in {x \in ProbeEntries \X ProbeEntries : x[1].sys # x[2].sys}}
\* what the caller's filesystem holds: nothing, or the file under every root
ProbeFilesystems == {{}, {ProbePath(b) : b \in RegistryPaths}}

InitAddMount ==
    /\ mounts_json = NoMounts
    /\ genome_registry = <<>>
    /\ user_registry = <<>>
    /\ disk = <<>>
    /\ recovery = NoBackup
    /\ pc = "probe"
    /\ txn = NoTxn
    /\ pre = NoSnapshot
    /\ last = NoResult
    /\ ops = 0
    /\ \E paths \in ProbePathDicts :
         probe = [f |-> "add_new_basepath", calls |-> 0, system_name |-> "",
                  paths |-> paths, first |-> [ok |-> FALSE, v |-> paths, raised |-> ""],
                  second |-> [ok |-> FALSE, v |-> paths, raised |-> ""], basepaths |-> <<>>,
                  verify |-> FALSE, existing |-> {}]

FirstAddMount(basepath, system_name, verify, existing) ==
    /\ probe.f = "add_new_basepath"
    /\ probe.calls = 0
    /\ LET r == add_new_basepath(probe.paths, GENOMES_RELATIVE_PATH, basepath, system_name,
                                 verify, existing)
       IN  probe' = [probe EXCEPT !.calls = 1, !.system_name = system_name, !.first = r,
                                  !.second = r, !.basepaths = <<basepath>>,
                                  !.verify = verify, !.existing = existing]
    /\ UNCHANGED <<mounts_json, genome_registry, user_registry, disk, recovery, pc, txn,
                   pre, last, ops>>

\* the second call is made only after the first has returned
SecondAddMount(basepath, verify, existing) ==
    /\ probe.f = "add_new_basepath"
    /\ probe.calls = 1
    /\ probe.first.ok
    /\ probe' = [probe EXCEPT !.calls = 2, !.basepaths = Append(@, basepath),
                   !.second = add_new_basepath(probe.first.v, GENOMES_RELATIVE_PATH, basepath,
                                               probe.system_name, verify, existing)]
    /\ UNCHANGED <<mounts_json, genome_registry, user_registry, disk, recovery, pc, txn,
                   pre, last, ops>>

NextAddMount ==
    \/ \E b \in RegistryPaths, s \in SystemNames, verify \in BOOLEAN, e \in ProbeFilesystems :
          FirstAddMount(b, s, verify, e)
    \/ \E b \in RegistryPaths, verify \in BOOLEAN, e \in ProbeFilesystems :
          SecondAddMount(b, verify, e)

SpecAddMount == InitAddMount /\ [][NextAddMount]_vars

\* ------------------------------------ active systems of assets, on their own
\* active_system: str=None: the value of a field that was not given
None == "None"

\* a validator that puts the default system in whatever was given
set_active_system_default_only(active_system, default_system) == default_system

\* @validator('active_system', always=True) of GenomeFile, GenomePath and
\* UserDefinedGene; default_system is declared before active_system in each,
\* so it is in values when the validator runs
set_active_system(active_system, default_system) ==
    IF active_system = None THEN default_system ELSE active_system

\* the constructors, as far as the active system goes
GenomeFile(type, default_system, active_system, path) ==
    Asset(type, default_system, set_active_system(active_system, default_system), path)
GenomePath(type, default_system, active_system, path) ==
    Asset(type, default_system, set_active_system(active_system, default_system), path)
UserDefinedGene(id, default_system, active_system, fasta, gene_model) ==
    [id |-> id, default_system |-> default_system,
     active_system |-> set_active_system(active_system, default_system),
     fasta |-> fasta, gene_model |-> gene_model]
\* Genome has no validator for active_system: what is given stays
Genome(id, default_system, active_system, species, release, assets) ==
    [id |-> id, default_system |-> default_system, active_system |-> active_system,
     species |-> species, release |-> release, assets |-> assets]

\* Genome.propagate_active_system: seven plain assignments
Genome_propagate_active_system(genome, active_system) ==
    [genome EXCEPT !.active_system = active_system,
                   !.assets["genome_fasta"].active_system = active_system,
                   !.assets["gtf"].active_system = active_system,
                   !.assets["transcriptome_fasta"].active_system = active_system,
                   !.assets["star_index"].active_system = active_system,
                   !.assets["refflat"].active_system = active_system,
                   !.assets["rrna_interval_list"].active_system = active_system]

\* a propagation that reaches the fasta and the latest gene model only
UserDefinedGene_propagate_latest_only(gene, active_system) ==
    [gene EXCEPT !.active_system = set_active_system(active_system, gene.default_system),
                 !.fasta.active_system = active_system,
                 !.gene_model[Max(DOMAIN gene.gene_model)].active_system = active_system]

\* UserDefinedGene.propagate_active_system: the assignment to the gene's own
\* field is validated (validate_assignment = True), those to the files are plain
UserDefinedGene_propagate_active_system(gene, active_system) ==
    [gene EXCEPT !.active_system = set_active_system(active_system, gene.default_system),
                 !.fasta.active_system = active_system,
                 !.gene_model = [n \in DOMAIN gene.gene_model |->
                                   [gene.gene_model[n] EXCEPT !.active_system = active_system]]]

\* the records the constructors are given: a default system, an active system
\* or none, one to MaxVersions gene models, one or two genomes in the collection
ActiveInputs == SystemNames \cup {None}
ProbeGenomePaths(k) ==
    <<[sys |-> "a", p |-> <<"mnt", "a">> \o GenomeFileRel("109", "hs", k)]>>
ProbeGenome(id, default_system, active_system) ==
    Genome(id, default_system, active_system, "hs", "109",
           [k \in GenomeAttrs |->
              IF k = "star_index"
              THEN GenomePath(k, default_system, active_system, ProbeGenomePaths(k))
              ELSE GenomeFile(GenomeAssetType(k), default_system, active_system,
                              ProbeGenomePaths(k))])
ProbeGene(default_system, active_system, versions) ==
    UserDefinedGene("geneA", default_system, active_system,
        GenomeFile("fasta", default_system, active_system,
                   <<[sys |-> "a", p |-> <<"mnt", "a">> \o FastaRel("geneA")]>>),
        [n \in 1..versions |->
           GenomeFile("yaml_gene_model", default_system, active_system,
                      <<[sys |-> "a",
                         p |-> <<"mnt", "a">> \o GeneDir("geneA") \o <<YamlName("geneA", n)>>]>>)])

InitActiveSystem ==
    /\ mounts_json = NoMounts
    /\ genome_registry = <<>>
    /\ user_registry = <<>>
    /\ disk = <<>>
    /\ recovery = NoBackup
    /\ pc = "probe"
    /\ txn = NoTxn
    /\ pre = NoSnapshot
    /\ last = NoResult
    /\ ops = 0
    /\ \E d \in SystemNames, a \in ActiveInputs, n \in 1..MaxVersions, ids \in SUBSET GenomeIds :
         /\ ids # {}
         /\ probe = [f |-> "active_system", op |-> "input", default_system |-> d,
                     active_system |-> a, versions |-> n, ids |-> ids, system_name |-> "",
                     genome |-> <<>>, gene |-> NoGene, genomes |-> <<>>]

\* the models are built from their fields
ConstructAssets ==
    /\ probe.f = "active_system"
    /\ probe.op = "input"
    /\ probe' = [probe EXCEPT !.op = "construct",
                   !.genome = ProbeGenome("g1", probe.default_system, probe.active_system),
                   !.gene = ProbeGene(probe.default_system, probe.active_system, probe.versions),
                   !.genomes = [g \in probe.ids |->
                                  ProbeGenome(g, probe.default_system, probe.active_system)]]
    /\ UNCHANGED <<mounts_json, genome_registry, user_registry, disk, recovery, pc, txn,
                   pre, last, ops>>

PropagateGenome(active_system) ==
    /\ probe.f = "active_system"
    /\ probe.op = "construct"
    /\ probe' = [probe EXCEPT !.op = "Genome.propagate_active_system",
                   !.system_name = active_system,
                   !.genome = Genome_propagate_active_system(probe.genome, active_system)]
    /\ UNCHANGED <<mounts_json, genome_registry, user_registry, disk, recovery, pc, txn,
                   pre, last, ops>>

PropagateGene(active_system) ==
    /\ probe.f = "active_system"
    /\ probe.op = "construct"
    /\ probe' = [probe EXCEPT !.op = "UserDefinedGene.propagate_active_system",
                   !.system_name = active_system,
                   !.gene = UserDefinedGene_propagate_active_system(probe.gene, active_system)]
    /\ UNCHANGED <<mounts_json, genome_registry, user_registry, disk, recovery, pc, txn,
                   pre, last, ops>>

\* load_genome: the raw collection gets the caller's system before it is parsed
SetActiveGenomes(system_name) ==
    /\ probe.f = "active_system"
    /\ probe.op = "construct"
    /\ probe' = [probe EXCEPT !.op = "set_active_system_genome",
                   !.system_name = system_name,
                   !.genomes = set_active_system_genome(probe.genomes, system_name)]
    /\ UNCHANGED <<mounts_json, genome_registry, user_registry, disk, recovery, pc, txn,
                   pre, last, ops>>

\* load_user_defined_gene: the same for the raw gene
SetActiveGene(system_name) ==
    /\ probe.f = "active_system"
    /\ probe.op = "construct"
    /\ probe' = [probe EXCEPT !.op = "set_active_system_user_defined_gene",
                   !.system_name = system_name,
                   !.gene = set_active_system_user_defined_gene(probe.gene, system_name)]
    /\ UNCHANGED <<mounts_json, genome_registry, user_registry, disk, recovery, pc, txn,
                   pre, last, ops>>

NextActiveSystem ==
    \/ ConstructAssets
    \/ \E s \in SystemNames : PropagateGenome(s)
    \/ \E s \in SystemNames : PropagateGene(s)
    \/ \E s \in SystemNames : SetActiveGenomes(s)
    \/ \E s \in SystemNames : SetActiveGene(s)

SpecActiveSystem == InitActiveSystem /\ [][NextActiveSystem]_vars

\* ------------------------------------- the derivation of a path, on its own
\* where a registry can be mounted: the roots above, and one whose last
\* directory has a name that ends with the genomes anchor
DeriveRoots == RegistryPaths \cup {<<"mnt", "mygenomes">>}
SplitKeywords == {GENOMES_RELATIVE_PATH, USER_GENES_RELATIVE_PATH}
\* a genome file, a gene file, and a file under neither anchor directory
DeriveFiles == {<<GENOMES_RELATIVE_PATH>> \o ProbeFile, FastaRel("geneA"), <<"tmp", "geneA.fa">>}
DerivePaths == {root \o f : root \in DeriveRoots, f \in DeriveFiles}
\* path dicts of one entry, and of two entries under different names
DerivePathDicts ==
    {<<[sys |-> "a", p |-> p]>> : p \in DerivePaths}
        \cup {<<[sys |-> "a", p |-> p], [sys |-> "b", p |-> q]>> : p \in DerivePaths, q \in DerivePaths}

InitDerive ==
    /\ mounts_json = NoMounts
    /\ genome_registry = <<>>
    /\ user_registry = <<>>
    /\ disk = <<>>
    /\ recovery = NoBackup
    /\ pc = "probe"
    /\ txn = NoTxn
    /\ pre = NoSnapshot
    /\ last = NoResult
    /\ ops = 0
    /\ \E paths \in DerivePathDicts :
         probe = [f |-> "add_new_system_path", calls |-> 0, paths |-> paths,
                  new_basepath |-> <<>>, system_name |-> "", split_keyword |-> "",
                  derived |-> [ok |-> FALSE, v |-> <<>>], result |-> [ok |-> FALSE, v |-> paths]]

\* one call of add_new_system_path: the path it derives and the dict it returns
DeriveCall(new_basepath, system_name, split_keyword) ==
    /\ probe.f = "add_new_system_path"
    /\ probe.calls = 0
    /\ probe' = [probe EXCEPT !.calls = 1, !.new_basepath = new_basepath,
                   !.system_name = system_name, !.split_keyword = split_keyword,
                   !.derived = DeriveNewPath(probe.paths, new_basepath, split_keyword),
                   !.result = add_new_system_path(probe.paths, new_basepath, system_name,
                                                  split_keyword)]
    /\ UNCHANGED <<mounts_json, genome_registry, user_registry, disk, recovery, pc, txn,
                   pre, last, ops>>

NextDerive ==
    \E b \in RegistryPaths, s \in SystemNames, kw \in SplitKeywords : DeriveCall(b, s, kw)

SpecDerive == InitDerive /\ [][NextDerive]_vars

\* ------------------------------------------------ get_user_defined_genes, on its own
\* a registered gene with versions 1..n as register-gene and n - 1 update-gene
\* calls from system a at /mnt/a leave it: every version file beside the first
SeedRoot == <<"mnt", "a">>
SeedMounts == Mountpoints("a", <<[sys |-> "a", p |-> SeedRoot]>>)
SeedGene(id, n) ==
    LET first == NewGene(SeedRoot, "a", SeedMounts, id).v
    IN  [first EXCEPT !.gene_model =
           [v \in 1..n |->
              IF v = 1 THEN first.gene_model[1]
              ELSE Asset("yaml_gene_model", first.default_system, "a",
                         <<[sys |-> "a", p |-> SeedRoot \o GeneDir(id) \o <<YamlName(id, v)>>]>>)]]
\* the files of such a gene: its fasta, and a gene model per version, each different
SeedGeneFiles(id, n) ==
    (FastaRel(id) :> [gene_id |-> id, body |-> 0, size |-> 500])
        @@ [f \in {GeneDir(id) \o <<YamlName(id, v)>> : v \in 1..n} |->
              [gene_id |-> id, size |-> 500,
               body |-> CHOOSE v \in 1..n : f = GeneDir(id) \o <<YamlName(id, v)>>]]

\* the texts a version suffix can be
VersionTexts == {"1", "2", "3", "02", "x"}
\* a requested id as the parts str.split(version_delim) gives: the gene id alone,
\* or the gene id and a suffix, or more parts when the delimiter occurs twice
RequestedIds ==
    {<<g>> : g \in GeneIds} \cup {<<g, t>> : g \in GeneIds, t \in VersionTexts}
        \cup {<<"geneA", "1", "2">>}
GeneIdLists == {<<g>> : g \in RequestedIds} \cup {<<g, h>> : g \in RequestedIds, h \in RequestedIds}

\* int(version) on the text of a suffix: leading zeros are read over, a text
\* that is not a number raises ValueError
ParseInt(text) ==
    LET ns == {n \in 0..99 : text = ToString(n) \/ text = Zfill2(n)}
    IN  IF ns = {} THEN [ok |-> FALSE, v |-> 0] ELSE [ok |-> TRUE, v |-> CHOOSE n \in ns : TRUE]

\* a reading of the requested id that drops the suffix
ParseGeneIdLatest(gid) ==
    [ok |-> Len(gid) <= 2, gene_id |-> gid[1], text |-> "", version |-> -1]

\* `gene_id, version = gid.strip().split(version_delim)`, or the id alone with
\* version -1; the unpacking needs exactly two parts
ParseGeneId(gid) ==
    IF Len(gid) = 1 THEN [ok |-> TRUE, gene_id |-> gid[1], text |-> "", version |-> -1]
    ELSE IF Len(gid) = 2 THEN [ok |-> TRUE, gene_id |-> gid[1], text |-> gid[2], version |-> 0]
    ELSE [ok |-> FALSE, gene_id |-> "", text |-> "", version |-> 0]

\* '.'.join(collected_ids)
RECURSIVE JoinIds(_)
JoinIds(ids) ==
    IF Len(ids) = 0 THEN ""
    ELSE IF Len(ids) = 1 THEN ids[1]
    ELSE ids[1] \o "." \o JoinIds(Tail(ids))

\* the loop of get_user_defined_genes over the requested ids: the fasta path,
\* the gene model path and the id collected for each, in order
RECURSIVE CollectGenes(_, _, _)
CollectGenes(registry_path, gene_ids, system_name) ==
    IF Len(gene_ids) = 0
    THEN [ok |-> TRUE, fasta_files |-> <<>>, yaml_files |-> <<>>, collected_ids |-> <<>>]
    ELSE LET failed == [ok |-> FALSE, fasta_files |-> <<>>, yaml_files |-> <<>>,
                        collected_ids |-> <<>>]
             parsed == ParseGeneId(gene_ids[1])
             gene == set_active_system_user_defined_gene(user_registry[parsed.gene_id].gene,
                                                         system_name)
             number == IF parsed.version < 0 THEN [ok |-> TRUE, v |-> -1]
                       ELSE ParseInt(parsed.text)
             rest == CollectGenes(registry_path, Tail(gene_ids), system_name)
         IN  IF ~parsed.ok THEN failed
             ELSE IF \/ parsed.gene_id \notin DOMAIN user_registry
                     \/ ~user_registry[parsed.gene_id].valid
                     \/ ~ValidUserDefinedGene(gene, registry_path)
             THEN failed
             ELSE IF ~number.ok THEN failed
             ELSE IF number.v >= 0 /\ number.v \notin DOMAIN gene.gene_model THEN failed
             ELSE IF ~rest.ok THEN failed
             ELSE [ok |-> TRUE,
                   fasta_files |-> <<PMGet(gene.fasta.path, system_name)>> \o rest.fasta_files,
                   yaml_files |-> <<get_version(gene, number.v, system_name)>> \o rest.yaml_files,
                   collected_ids |-> <<gene.id>> \o rest.collected_ids]

\* get_user_defined_genes: what it writes into outdir, each combined file as the
\* sequence of the files copied into it; gtf_ok: whether the external
\* generate_gtf_entry accepts the combined gene models
get_user_defined_genes(registry_path, gene_ids, system_name, gtf_ok) ==
    LET c == CollectGenes(registry_path, gene_ids, system_name)
    IN  IF ~c.ok
        THEN [status |-> "error", written |-> FALSE, basename |-> "", fa |-> <<>>, yaml |-> <<>>]
        ELSE [status |-> IF gtf_ok THEN "ok" ELSE "error", written |-> TRUE,
              basename |-> IF Len(c.collected_ids) > 3 THEN "custom" ELSE JoinIds(c.collected_ids),
              fa |-> [i \in 1..Len(c.fasta_files) |-> FileAt(registry_path, c.fasta_files[i])],
              yaml |-> [i \in 1..Len(c.yaml_files) |-> FileAt(registry_path, c.yaml_files[i])]]

InitGetGenes ==
    /\ mounts_json = SeedMounts
    /\ genome_registry = <<>>
    /\ recovery = NoBackup
    /\ pc = "probe"
    /\ txn = NoTxn
    /\ pre = NoSnapshot
    /\ last = NoResult
    /\ ops = 0
    /\ \E n \in 1..MaxVersions, m \in 0..1 :
         /\ user_registry =
              IF m = 0 THEN ("geneA" :> GeneConfFile(SeedGene("geneA", n)))
              ELSE ("geneA" :> GeneConfFile(SeedGene("geneA", n)))
                      @@ ("geneB" :> GeneConfFile(SeedGene("geneB", m)))
         /\ disk = IF m = 0 THEN SeedGeneFiles("geneA", n)
                   ELSE SeedGeneFiles("geneA", n) @@ SeedGeneFiles("geneB", m)
    /\ probe = [f |-> "get_user_defined_genes", calls |-> 0, gene_ids |-> <<>>,
                system_name |-> "",
                out |-> [status |-> "", written |-> FALSE, basename |-> "", fa |-> <<>>,
                         yaml |-> <<>>]]

GetGenes(registry_path, gene_ids, system_name, gtf_ok) ==
    /\ probe.f = "get_user_defined_genes"
    /\ probe.calls = 0
    /\ probe' = [probe EXCEPT !.calls = 1, !.gene_ids = gene_ids, !.system_name = system_name,
                   !.out = get_user_defined_genes(registry_path, gene_ids, system_name, gtf_ok)]
    /\ UNCHANGED <<mounts_json, genome_registry, user_registry, disk, recovery, pc, txn,
                   pre, last, ops>>

NextGetGenes ==
    \E gene_ids \in GeneIdLists, s \in {"a", "b"}, gtf_ok \in BOOLEAN :
       GetGenes(SeedRoot, gene_ids, s, gtf_ok)

SpecGetGenes == InitGetGenes /\ [][NextGetGenes]_vars

\* ----------------------------------- the edit of a gene's config, on its own
InitGeneEdit ==
    /\ mounts_json = SeedMounts
    /\ genome_registry = <<>>
    /\ user_registry = <<>>
    /\ disk = <<>>
    /\ recovery = NoBackup
    /\ pc = "probe"
    /\ txn = NoTxn
    /\ pre = NoSnapshot
    /\ last = NoResult
    /\ ops = 0
    /\ \E id \in GeneIds, n \in 1..MaxGeneVersions :
         probe = [f |-> "add_new_usergene_mountpoint", calls |-> 0,
                  gene_dict |-> SeedGene(id, n), mountpoint |-> <<>>, system_name |-> "",
                  result |-> [ok |-> FALSE, v |-> SeedGene(id, n)]]

\* the call update_config_mountpoint makes in add mode for one gene config
EditGene(mountpoint, system_name) ==
    /\ probe.f = "add_new_usergene_mountpoint"
    /\ probe.calls = 0
    /\ probe' = [probe EXCEPT !.calls = 1, !.mountpoint = mountpoint,
                   !.system_name = system_name,
                   !.result = add_new_usergene_mountpoint(probe.gene_dict, mountpoint,
                                                          system_name)]
    /\ UNCHANGED <<mounts_json, genome_registry, user_registry, disk, recovery, pc, txn,
                   pre, last, ops>>

NextGeneEdit ==
    \E b \in RegistryPaths, s \in SystemNames : EditGene(b, s)

SpecGeneEdit == InitGeneEdit /\ [][NextGeneEdit]_vars

\* ------------------------------------------------ GenomeFile.add_checksum, on its own
\* a stored checksum: none, or what add_checksum returned for some content
NoChecksum == [kind |-> "none", of |-> <<>>]

\* an add_checksum that lets ChecksumMismatchError escape
add_checksum_raising(val, registry_path, asset) ==
    IF ~ValidGenomeFile(asset, registry_path)
    THEN [ok |-> FALSE, v |-> NoChecksum, logged |-> FALSE]
    ELSE LET target == FileAt(registry_path, PMGet(asset.path, asset.active_system))
             mismatch == /\ target.size <= ChecksumSizeThreshold
                         /\ val # NoChecksum /\ ~SameChecksum(val, Checksum(target))
         IN  [ok |-> ~mismatch, v |-> Checksum(target), logged |-> mismatch]

\* GenomeFile.add_checksum: stat of path[active_system] raises when the file is
\* not there; a file above the threshold gives its size and the stored value
\* is not looked at; below it the md5 is returned, and a stored value that
\* differs raises ChecksumMismatchError inside a try that catches and logs it
add_checksum(val, registry_path, asset) ==
    IF ~ValidGenomeFile(asset, registry_path)
    THEN [ok |-> FALSE, v |-> NoChecksum, logged |-> FALSE]
    ELSE LET target == FileAt(registry_path, PMGet(asset.path, asset.active_system))
         IN  [ok |-> TRUE, v |-> Checksum(target),
              logged |-> /\ target.size <= ChecksumSizeThreshold
                         /\ val # NoChecksum /\ ~SameChecksum(val, Checksum(target))]

ChecksumRel == FastaRel("geneA")

InitChecksum ==
    /\ mounts_json = SeedMounts
    /\ genome_registry = <<>>
    /\ user_registry = <<>>
    /\ disk \in {<<>>} \cup {(ChecksumRel :> c) : c \in FileContents}
    /\ recovery = NoBackup
    /\ pc = "probe"
    /\ txn = NoTxn
    /\ pre = NoSnapshot
    /\ last = NoResult
    /\ ops = 0
    /\ \E stored \in {NoChecksum} \cup {Checksum(c) : c \in FileContents} :
         probe = [f |-> "add_checksum", calls |-> 0, stored |-> stored,
                  asset |-> Asset("fasta", "a", "a", <<[sys |-> "a", p |-> SeedRoot \o ChecksumRel]>>),
                  result |-> [ok |-> FALSE, v |-> NoChecksum, logged |-> FALSE]]

\* the validation of one GenomeFile of a config file that load_genome or
\* load_user_defined_gene parses for a caller on system a
LoadGenomeFile(type) ==
    /\ probe.f = "add_checksum"
    /\ probe.calls = 0
    /\ LET asset == [probe.asset EXCEPT !.type = type]
       IN  probe' = [probe EXCEPT !.calls = 1, !.asset = asset,
                       !.result = add_checksum(probe.stored, SeedRoot, asset)]
    /\ UNCHANGED <<mounts_json, genome_registry, user_registry, disk, recovery, pc, txn,
                   pre, last, ops>>

NextChecksum == \E type \in {"fasta", "gtf", "yaml_gene_model"} : LoadGenomeFile(type)

SpecChecksum == InitChecksum /\ [][NextChecksum]_vars

\* ------------------------------------------ a registry that holds assets already
\* Registries that successful commands leave behind: after init at /mnt/a as
\* system a, with or without b added at /mnt/b, a genome registered by some
\* caller, and a gene registered by a together with the versions update-gene
\* calls of a added.  From there one command is issued, and after it only
\* remove-mountpoint; probe keeps the registry the commands started from.
SeedMountsAB == Mountpoints("a", <<[sys |-> "a", p |-> SeedRoot],
                                   [sys |-> "b", p |-> <<"mnt", "b">>]>>)
SeedGenomeConfigs(mount_config) ==
    {<<>>} \cup
    {(ConfName("109") :> GenomeConfFile(
         ("g1" :> NewGenome(c.registry_path, c.system_name, mount_config, "109", "hs", "g1").v))) :
       c \in {x \in Callers :
                NewGenome(x.registry_path, x.system_name, mount_config, "109", "hs", "g1").ok}}
SeedGeneConfigs(mount_config) ==
    {<<>>}
    \cup {("geneA" :> GeneConfFile(SeedGene("geneA", n))) :
            n \in {m \in 1..2 : mount_config = SeedMounts}}
    \cup {("geneA" :> GeneConfFile(NewGene(SeedRoot, "a", mount_config, "geneA").v)) :
            n \in {m \in 1..1 : mount_config = SeedMountsAB}}
SeedDisk(genome_conf, user_conf) ==
    (IF DOMAIN genome_conf = {} THEN <<>> ELSE CopiedGenomeFiles("109", "hs", 6))
    @@ (IF DOMAIN user_conf = {} THEN <<>>
        ELSE SeedGeneFiles("geneA", Len(user_conf["geneA"].gene.gene_model)))

InitSeeded ==
    /\ mounts_json \in {SeedMounts, SeedMountsAB}
    /\ genome_registry \in SeedGenomeConfigs(mounts_json)
    /\ user_registry \in SeedGeneConfigs(mounts_json)
    /\ disk = SeedDisk(genome_registry, user_registry)
    /\ recovery = NoBackup
    /\ pc = "idle"
    /\ txn = NoTxn
    /\ pre = NoSnapshot
    /\ last = NoResult
    /\ ops = 0
    /\ probe = [f |-> "seeded", mounts_json |-> mounts_json,
                genome_registry |-> genome_registry, user_registry |-> user_registry]

NextSeeded ==
    \/ ops = 0 /\ \E c \in Callers : add_mountpoint(c.registry_path, c.system_name)
    \/ ops = 0 /\ \E c \in Callers, y \in YamlInputs, copy_ok \in BOOLEAN, o \in UpdateOutcomes :
                     update_user_defined_gene(c.registry_path, y, c.system_name, copy_ok, o)
    \/ \E c \in Callers, s \in SystemNames, answer \in Confirmations :
          remove_mountpoint(c.registry_path, s, answer)
    \/ Backup
    \/ Edit
    \/ WriteGenomeConfig
    \/ WriteGeneConfig
    \/ WriteMountConfig
    \/ Restore
    \/ Cleanup
    \/ Return

SpecSeeded == InitSeeded /\ [][NextSeeded]_vars

\* ================================================================ properties
Returning(op) == pc = "return" /\ last.op = op
ConfigFilesAsBefore ==
    /\ genome_registry = pre.genome_registry
    /\ user_registry = pre.user_registry
NothingTouched ==
    /\ ConfigFilesAsBefore
    /\ mounts_json = pre.mounts_json
    /\ disk = pre.disk
    /\ recovery = pre.recovery
\* the path dict of every asset of the given config directories
AssetPaths(genome_conf, user_conf) ==
    {genome_conf[c].genomes[g].assets[k].path :
        <<c, g, k>> \in {x \in (DOMAIN genome_conf) \X GenomeIds \X GenomeAttrs :
                           x[2] \in DOMAIN genome_conf[x[1]].genomes}}
    \cup {user_conf[c].gene.fasta.path : c \in {x \in DOMAIN user_conf : user_conf[x].valid}}
    \cup {user_conf[c].gene.gene_model[n].path :
            <<c, n>> \in {x \in (DOMAIN user_conf) \X (1..(MaxVersions + 1)) :
                            x[2] \in DOMAIN user_conf[x[1]].gene.gene_model}}
EveryMountOnEveryAsset(mount_config, genome_conf, user_conf) ==
    \A paths \in AssetPaths(genome_conf, user_conf) :
       \A i \in 1..Len(mount_config.mounts) : PMHas(paths, mount_config.mounts[i].sys)

\* C1: when add-mountpoint raises after its backup was taken (in an edit, a
\* validation or a write of a config file, the last one included), every file
\* of both config directories has the content it had when the command began.
C1_AddFailureRestoresConfigs ==
    (Returning("add_mountpoint") /\ last.status = "error" /\ last.failure = "transaction")
        => ConfigFilesAsBefore

\* C1 witness: add-mountpoint raised on the write of the last config file, a
\* gene config, after genome configs were rewritten and with a file cut short
C1_Witness ==
    /\ Returning("add_mountpoint") /\ last.status = "error"
    /\ txn.failed = "write" /\ txn.wrote
    /\ DOMAIN txn.new_genomes = {} /\ Cardinality(DOMAIN txn.new_genes) = 1
    /\ DOMAIN genome_registry # {}
    /\ \A c \in DOMAIN pre.genome_registry : pre.genome_registry[c].valid
    /\ \A c \in DOMAIN pre.user_registry : pre.user_registry[c].valid

\* C2 (as claimed): when add-mountpoint or remove-mountpoint raises after its
\* backup was taken, a failure of the write of the mount table included, the
\* persisted mount table is the one from before the command.
C2_FailureKeepsMountTable ==
    ((Returning("add_mountpoint") \/ Returning("remove_mountpoint"))
        /\ last.status = "error" /\ last.failure = "transaction")
        => mounts_json = pre.mounts_json

\* C3: add-mountpoint raises when the name is registered or when the path is
\* the path of a registered mount; the mount table, the config files and the
\* data files are as before and no backup directory was made.
C3_DuplicateMountRefused ==
    (/\ Returning("add_mountpoint")
     /\ pre.mounts_json.state = "ok"
     /\ \E i \in 1..Len(pre.mounts_json.mounts) :
           \/ pre.mounts_json.mounts[i].sys = last.args[2]
           \/ pre.mounts_json.mounts[i].p = last.args[1])
        => (last.status = "error" /\ last.failure = "precondition" /\ NothingTouched)

\* C3 witness: the path of a registered mount given under a name that is not registered
C3_Witness ==
    /\ Returning("add_mountpoint") /\ last.status = "error"
    /\ pre.mounts_json.state = "ok"
    /\ ~PMHas(pre.mounts_json.mounts, last.args[2])
    /\ \E i \in 1..Len(pre.mounts_json.mounts) : pre.mounts_json.mounts[i].p = last.args[1]
    /\ Len(pre.mounts_json.mounts) = 2
    /\ DOMAIN genome_registry # {}

\* C4: remove-mountpoint raises for the default mount and for the mount it is
\* issued from, before the prompt, with no backup made and nothing written.
C4_ProtectedMountRefused ==
    (/\ Returning("remove_mountpoint")
     /\ pre.mounts_json.state = "ok"
     /\ \/ last.args[2] = pre.mounts_json.default_system_name
        \/ \E i \in 1..Len(pre.mounts_json.mounts) :
              /\ pre.mounts_json.mounts[i].p = last.args[1]
              /\ pre.mounts_json.mounts[i].sys = last.args[2])
        => (last.status = "error" /\ ~last.asked /\ NothingTouched)

\* C4 witness: the default mount named from another registered mount, with
\* the answer that would confirm; and the issuing mount named, not the default
C4_Witness ==
    /\ Returning("remove_mountpoint") /\ last.status = "error"
    /\ pre.mounts_json.state = "ok"
    /\ last.args[2] = pre.mounts_json.default_system_name
    /\ last.args[3] = "CONFIRM"
    /\ \E i \in 1..Len(pre.mounts_json.mounts) :
          /\ pre.mounts_json.mounts[i].p = last.args[1]
          /\ pre.mounts_json.mounts[i].sys # last.args[2]
    /\ DOMAIN user_registry # {}

\* C5: an answer to the prompt other than CONFIRM ends remove-mountpoint with
\* no backup made and the config files and the mount table as before.
C5_DeclinedRemoveChangesNothing ==
    (Returning("remove_mountpoint") /\ last.asked /\ last.args[3] # "CONFIRM")
        => (last.status = "cancelled" /\ NothingTouched)

\* C5 witness: the prompt was answered with something else for a removable mount
C5_Witness ==
    /\ Returning("remove_mountpoint") /\ last.asked /\ last.args[3] # "CONFIRM"
    /\ PMHas(mounts_json.mounts, last.args[2])
    /\ DOMAIN user_registry # {}

\* C6 (as claimed): a successful update-gene on a registry where every asset
\* has a path for every mount leaves a registry where every asset, the new
\* version included, has a path for every mount.
C6_UpdateGeneKeepsEveryMount ==
    (/\ Returning("update_gene") /\ last.status = "ok" /\ last.failure = "none"
     /\ pre.mounts_json.state = "ok"
     /\ \A c \in DOMAIN pre.genome_registry : pre.genome_registry[c].valid
     /\ \A c \in DOMAIN pre.user_registry : pre.user_registry[c].valid
     /\ EveryMountOnEveryAsset(pre.mounts_json, pre.genome_registry, pre.user_registry))
        => EveryMountOnEveryAsset(mounts_json, genome_registry, user_registry)

\* C7: after add-mountpoint(registry_path, system_name) returns, every asset
\* of every config file has under system_name the path registry_path/<anchor>/
\* <its place under the anchor>, and the mount table is the previous one with
\* system_name -> registry_path added.
C7_AddMountpointAddsEverywhere ==
    (Returning("add_mountpoint") /\ last.status = "ok")
        => LET base == last.args[1]
               name == last.args[2]
               At(paths, rel) == PMHas(paths, name) /\ PMGet(paths, name) = base \o rel
           IN  /\ \A c \in DOMAIN genome_registry :
                     \A g \in DOMAIN genome_registry[c].genomes :
                        \A k \in GenomeAttrs :
                           LET genome == genome_registry[c].genomes[g]
                           IN  At(genome.assets[k].path,
                                  GenomeFileRel(genome.release, genome.species, k))
               /\ \A c \in DOMAIN user_registry :
                     LET gene == user_registry[c].gene
                     IN  /\ At(gene.fasta.path, FastaRel(gene.id))
                         /\ \A n \in DOMAIN gene.gene_model :
                               At(gene.gene_model[n].path,
                                  GeneDir(gene.id) \o <<YamlName(gene.id, n)>>)
               /\ mounts_json = [pre.mounts_json EXCEPT
                                   !.mounts = Append(@, [sys |-> name, p |-> base])]

\* C7 witness: add-mountpoint returned on a registry with a genome and a gene
C7_Witness ==
    /\ Returning("add_mountpoint") /\ last.status = "ok"
    /\ \E c \in DOMAIN genome_registry : DOMAIN genome_registry[c].genomes # {}
    /\ DOMAIN user_registry # {}

\* C8: after a confirmed remove-mountpoint(name) returns, no asset of any
\* config file has a path under name, and the mount table is the previous one
\* without name: the other entries and the default are as before.
C8_RemoveMountpointRemovesEverywhere ==
    (Returning("remove_mountpoint") /\ last.status = "ok")
        => /\ \A paths \in AssetPaths(genome_registry, user_registry) :
                 ~PMHas(paths, last.args[2])
           /\ ~PMHas(mounts_json.mounts, last.args[2])
           /\ mounts_json = [pre.mounts_json EXCEPT !.mounts = PMDel(@, last.args[2])]
           /\ mounts_json.default_system_name = pre.mounts_json.default_system_name

\* C8 witness: a registered mount was removed from a registry with a gene in it
C8_Witness ==
    /\ Returning("remove_mountpoint") /\ last.status = "ok"
    /\ PMHas(pre.mounts_json.mounts, last.args[2])
    /\ DOMAIN user_registry # {}
    /\ Len(mounts_json.mounts) >= 1

\* C9: a second add_new_basepath call under the same system name, whatever
\* its base path and verify flag, leaves the path dict as the first call left it.
C9_AddMountIdempotent ==
    (probe.f = "add_new_basepath" /\ probe.calls = 2) => probe.second.v = probe.first.v

\* C9 witness: the first call added an entry and the second call, with another
\* base path, returned
C9_Witness ==
    /\ probe.f = "add_new_basepath" /\ probe.calls = 2
    /\ probe.first.v # probe.paths
    /\ probe.second.ok
    /\ probe.basepaths[1] # probe.basepaths[2]

\* C10: update-gene with a gene model whose checksum is the checksum of a
\* stored version raises from add_version; the gene's config file is as
\* before and the file copied in for the new version is not on disk.
C10_DuplicateVersionRefused ==
    (/\ Returning("update_gene")
     /\ last.failure \notin {"load", "copy"}
     /\ LET id == last.args[3].gene_id
        IN  \E n \in DOMAIN pre.user_registry[id].gene.gene_model :
               SameChecksum(Checksum(last.args[3]),
                            Checksum(pre.disk[GeneDir(id) \o <<YamlName(id, n)>>])))
        => LET id == last.args[3].gene_id
               gene == pre.user_registry[id].gene
           IN  /\ last.status = "error" /\ last.failure = "duplicate"
               /\ user_registry = pre.user_registry
               /\ (GeneDir(id) \o <<YamlName(id, Max(DOMAIN gene.gene_model) + 1)>>)
                     \notin DOMAIN disk

\* C10 witness: the duplicate is of a version that is not the latest one
C10_Witness ==
    /\ Returning("update_gene") /\ last.failure = "duplicate"
    /\ LET id == last.args[3].gene_id
           gene == pre.user_registry[id].gene
       IN  /\ Cardinality(DOMAIN gene.gene_model) >= 2
           /\ ~SameChecksum(Checksum(last.args[3]),
                            Checksum(pre.disk[GeneDir(id) \o
                                        <<YamlName(id, Max(DOMAIN gene.gene_model))>>]))

\* the file of version n of a gene, under the registry root
VersionFile(id, n) == GeneDir(id) \o <<YamlName(id, n)>>

\* C11 (as claimed): update-gene with a gene model whose content differs from
\* the content of every stored version is not refused as a duplicate; when it
\* returns, the file is stored under the key max + 1 and the entries of the
\* stored versions keep their paths.
C11_DifferentContentAccepted ==
    (/\ Returning("update_gene")
     /\ last.failure \notin {"load", "copy"}
     /\ LET id == last.args[3].gene_id
        IN  \A n \in DOMAIN pre.user_registry[id].gene.gene_model :
               pre.disk[VersionFile(id, n)] # last.args[3])
        => LET id == last.args[3].gene_id
               before == pre.user_registry[id].gene.gene_model
               after == user_registry[id].gene.gene_model
               new == Max(DOMAIN before) + 1
           IN  /\ last.failure # "duplicate"
               /\ last.failure = "none" =>
                     /\ DOMAIN after = DOMAIN before \cup {new}
                     /\ VersionFile(id, new) \in DOMAIN disk
                     /\ disk[VersionFile(id, new)] = last.args[3]
                     /\ \A n \in DOMAIN before : after[n].path = before[n].path

\* C12: the version keys of every gene are 1..n with n >= 1, get_version
\* resolves the latest version to the greatest key, and an update-gene that
\* failed leaves the keys of its gene as they were.
C12_VersionsContiguous ==
    /\ \A id \in {x \in DOMAIN user_registry : user_registry[x].valid} :
          LET gene == user_registry[id].gene
              keys == DOMAIN gene.gene_model
          IN  /\ \E n \in 1..(MaxVersions + 1) : keys = 1..n
              /\ \A sys \in PMKeys(gene.gene_model[Max(keys)].path) :
                    get_version(gene, -1, sys) = PMGet(gene.gene_model[Max(keys)].path, sys)
    /\ (/\ Returning("update_gene") /\ last.failure # "none"
        /\ last.args[3].gene_id \in DOMAIN pre.user_registry
        /\ pre.user_registry[last.args[3].gene_id].valid)
          => LET id == last.args[3].gene_id
             IN  DOMAIN user_registry[id].gene.gene_model
                    = DOMAIN pre.user_registry[id].gene.gene_model

\* C12 witness: a gene with two versions whose third update-gene failed after
\* the new file was copied in
C12_Witness ==
    /\ Returning("update_gene") /\ last.failure \in {"duplicate", "write", "read"}
    /\ DOMAIN user_registry[last.args[3].gene_id].gene.gene_model = 1..2

\* C13 (as claimed): when register-genome raises after files were copied into
\* the registry (a later copy failed, the build failed, or the write of the
\* release's config file failed), the genome directory it made does not exist
\* and the release's config file has the content it had before.
C13_FailedGenomeBuildLeavesNothing ==
    (Returning("register_genome") /\ last.status = "error" /\ last.failure # "precondition")
        => /\ ~DirExists(GenomeDir(last.args[3], last.args[4]))
           /\ genome_registry = pre.genome_registry

\* C14 (as claimed): register-genome of an id that is in the release's
\* collection raises the duplicate error; the config file is as before and
\* the files copied for the new genome are removed.
C14_DuplicateGenomeRefused ==
    (/\ Returning("register_genome")
     /\ last.failure \notin {"precondition", "copy", "mounts", "load"}
     /\ ConfName(last.args[3]) \in DOMAIN pre.genome_registry
     /\ last.args[5] \in DOMAIN pre.genome_registry[ConfName(last.args[3])].genomes)
        => /\ last.status = "error" /\ last.raised = "duplicate"
           /\ genome_registry = pre.genome_registry
           /\ disk = pre.disk

\* C15 (as claimed): when register-gene raises after the per-gene directory
\* was made (a failed build, or a failed write of the gene's config file), the
\* per-gene directory does not exist and the gene has no config file.
C15_FailedRegisterGeneLeavesNothing ==
    (Returning("register_gene") /\ last.status = "error" /\ last.failure \in {"build", "write"})
        => /\ ~DirExists(GeneDir(last.args[3].gene_id))
           /\ last.args[3].gene_id \notin DOMAIN user_registry

C17_EveryFailureIsReported ==
    (pc = "return" /\ last.op # "none" /\ last.failure # "none") => last.status = "error"

\* every sub-asset of a genome: the two base files and the four main attributes
GenomeSubAssets(genome) ==
    {genome.assets[k] : k \in SeqToSet(GENOME_CLASS_BASE_ATTR)}
        \cup {genome.assets[k] : k \in SeqToSet(GENOME_CLASS_MAIN_ATTR)}
GeneSubAssets(gene) == {gene.fasta} \cup {gene.gene_model[n] : n \in DOMAIN gene.gene_model}

\* C18: after a propagation of mount m, the composed asset and every one of
\* its sub-assets has active mount m: a genome with its two base files and four
\* main attributes, a gene with its fasta and every version; and after the
\* raw-structure variants, the same for every genome of the collection and for
\* the raw gene.
C18_PropagationReachesEverySubAsset ==
    /\ (probe.f = "active_system" /\ probe.op = "Genome.propagate_active_system")
          => /\ probe.genome.active_system = probe.system_name
             /\ \A x \in GenomeSubAssets(probe.genome) : x.active_system = probe.system_name
    /\ (probe.f = "active_system"
          /\ probe.op \in {"UserDefinedGene.propagate_active_system",
                           "set_active_system_user_defined_gene"})
          => /\ probe.gene.active_system = probe.system_name
             /\ \A x \in GeneSubAssets(probe.gene) : x.active_system = probe.system_name
    /\ (probe.f = "active_system" /\ probe.op = "set_active_system_genome")
          => \A g \in DOMAIN probe.genomes :
                /\ probe.genomes[g].active_system = probe.system_name
                /\ \A x \in GenomeSubAssets(probe.genomes[g]) :
                      x.active_system = probe.system_name

\* C18 witness: a gene with three versions, built with another active system,
\* after the propagation of a mount that is not its default
C18_Witness ==
    /\ probe.f = "active_system" /\ probe.op = "UserDefinedGene.propagate_active_system"
    /\ DOMAIN probe.gene.gene_model = 1..3
    /\ probe.active_system \notin {None, probe.system_name}
    /\ probe.system_name # probe.default_system

\* C19: a file, a directory and a user-defined gene built with no active
\* system have their default system as active system, and one built with an
\* active system has that one.
C19_ActiveSystemDefaults ==
    (probe.f = "active_system" /\ probe.op = "construct")
        => LET resolved == IF probe.active_system = None THEN probe.default_system
                           ELSE probe.active_system
           IN  /\ probe.gene.active_system = resolved
               /\ \A x \in GeneSubAssets(probe.gene) : x.active_system = resolved
               /\ \A x \in GenomeSubAssets(probe.genome) : x.active_system = resolved

\* C19 witness: the assets were built with an active system other than the default
C19_Witness ==
    /\ probe.f = "active_system" /\ probe.op = "construct"
    /\ probe.active_system \notin {None, probe.default_system}
    /\ probe.genome.assets["star_index"].active_system = probe.active_system

\* C20: for a first path that has the anchor directory exactly once, the
\* derived path is the base, the anchor and the part of the path after the
\* anchor, whatever the base; it is what the first path alone gives, the other
\* entries of the path dict play no part; and the dict returned has it under
\* the system name.
C20_DerivedPathFromFirstPathOnly ==
    (/\ probe.f = "add_new_system_path" /\ probe.calls = 1
     /\ Cardinality(AnchorPositions(probe.paths[1].p, probe.split_keyword)) = 1)
        => LET first == probe.paths[1].p
               i == CHOOSE j \in 1..Len(first) :
                       \E pfx \in NamePrefixes : first[j] = pfx \o probe.split_keyword
           IN  /\ probe.derived.ok
               /\ probe.derived.v = probe.new_basepath \o <<probe.split_keyword>>
                                       \o SubSeq(first, i + 1, Len(first))
               /\ probe.derived = DeriveNewPath(<<probe.paths[1]>>, probe.new_basepath,
                                                probe.split_keyword)
               /\ probe.result.ok
               /\ PMGet(probe.result.v, probe.system_name) = probe.derived.v

\* C20 witness: a dict of two paths with different parts after their anchors,
\* the first a genome file under a root other than the new base
C20_Witness ==
    /\ probe.f = "add_new_system_path" /\ probe.calls = 1
    /\ Len(probe.paths) = 2
    /\ probe.paths[1].p = <<"mnt", "a">> \o <<GENOMES_RELATIVE_PATH>> \o ProbeFile
    /\ probe.paths[2].p = <<"mnt", "mygenomes">> \o FastaRel("geneA")
    /\ probe.split_keyword = GENOMES_RELATIVE_PATH
    /\ probe.new_basepath = <<"mnt", "b">>
    /\ probe.derived.v = <<"mnt", "b">> \o <<GENOMES_RELATIVE_PATH>> \o ProbeFile

\* the number a version suffix stands for
SuffixNumber(text) == CHOOSE n \in 1..(MaxVersions + 1) : text \in {ToString(n), Zfill2(n)}

\* C21: when every requested id names a registered gene, and every suffix a
\* version that gene has, the combined fasta and the combined gene model
\* hold one block per requested id, in the order of the request: the gene's
\* fasta, and the gene model of the version in the suffix, or of the gene's
\* maximum version for an id without suffix.
C21_EachIdResolvedInOrder ==
    (/\ probe.f = "get_user_defined_genes" /\ probe.calls = 1 /\ probe.system_name = "a"
     /\ \A i \in 1..Len(probe.gene_ids) :
           LET gid == probe.gene_ids[i]
           IN  /\ Len(gid) <= 2
               /\ gid[1] \in DOMAIN user_registry
               /\ Len(gid) = 2 =>
                     \E n \in DOMAIN user_registry[gid[1]].gene.gene_model :
                        gid[2] \in {ToString(n), Zfill2(n)})
        => /\ probe.out.written
           /\ Len(probe.out.fa) = Len(probe.gene_ids)
           /\ Len(probe.out.yaml) = Len(probe.gene_ids)
           /\ \A i \in 1..Len(probe.gene_ids) :
                 LET gid == probe.gene_ids[i]
                     v == IF Len(gid) = 1
                          THEN Max(DOMAIN user_registry[gid[1]].gene.gene_model)
                          ELSE SuffixNumber(gid[2])
                 IN  /\ probe.out.fa[i] = disk[FastaRel(gid[1])]
                     /\ probe.out.yaml[i] = disk[VersionFile(gid[1], v)]

\* C21 witness: geneA.1 and geneA.2 requested together, of a gene with three
\* versions: two fasta blocks and the gene models of versions 1 and 2
C21_Witness ==
    /\ probe.f = "get_user_defined_genes" /\ probe.calls = 1
    /\ probe.gene_ids = <<<<"geneA", "1">>, <<"geneA", "2">>>>
    /\ DOMAIN user_registry["geneA"].gene.gene_model = 1..3
    /\ probe.out.written
    /\ probe.out.yaml = <<disk[VersionFile("geneA", 1)], disk[VersionFile("geneA", 2)]>>
    /\ probe.out.yaml[1] # probe.out.yaml[2]

\* C22 (as claimed): when add-mountpoint or remove-mountpoint, begun with no
\* backup directory on disk, has got to its backup, neither backup directory
\* exists when it returns or raises; and when a failure is answered by
\* restoration, every config file has its content of before the command at
\* the moment the backups are deleted.
C22_BackupsGoneOnExit ==
    /\ (/\ pc = "return" /\ last.op \in {"add_mountpoint", "remove_mountpoint"}
        /\ txn.mode # "" /\ pre.recovery = NoBackup)
          => recovery = NoBackup
    /\ (pc = "cleanup" /\ txn.failed # "") => ConfigFilesAsBefore

\* C23: every gene-model version of a registered gene is a file that declares
\* the same gene identifier, which is the gene's id and the name of its config
\* file; and an update-gene that added a version added a model that declares
\* the id of the gene it was added to, and changed the config file of no other gene.
C23_OneIdentifierPerGene ==
    /\ \A c \in {x \in DOMAIN user_registry : user_registry[x].valid} :
          LET gene == user_registry[c].gene
          IN  /\ gene.id = c
              /\ \A n \in DOMAIN gene.gene_model :
                    /\ VersionFile(c, n) \in DOMAIN disk
                    /\ disk[VersionFile(c, n)].gene_id = c
                    /\ \A i \in 1..Len(gene.gene_model[n].path) :
                          LET p == gene.gene_model[n].path[i].p
                          IN  SubSeq(p, Len(p) - 2, Len(p)) = VersionFile(c, n)
    /\ (Returning("update_gene") /\ last.status = "ok" /\ last.failure = "none")
          => \A c \in DOMAIN user_registry :
                IF user_registry[c] # pre.user_registry[c]
                THEN /\ c = last.args[3].gene_id
                     /\ disk[VersionFile(c, Max(DOMAIN user_registry[c].gene.gene_model))]
                          = last.args[3]
                ELSE TRUE

\* C23 witness: update-gene added version 2 to a gene; a model declaring
\* another identifier was among the inputs it could be given
C23_Witness ==
    /\ Returning("update_gene") /\ last.status = "ok" /\ last.failure = "none"
    /\ DOMAIN user_registry[last.args[3].gene_id].gene.gene_model = {1, 2}
    /\ \E y \in YamlInputs : y.gene_id # last.args[3].gene_id

\* C24 (as claimed): add_new_basepath under a system name that is a key of the
\* path dict returns normally and leaves the path dict as it is, whatever the
\* verify flag and whether or not the derived path exists.
C24_PresentNameIsNoOp ==
    (/\ probe.f = "add_new_basepath" /\ probe.calls = 1
     /\ PMHas(probe.paths, probe.system_name))
        => probe.first.ok /\ probe.first.v = probe.paths

\* C25: for a system name that is no key of the path dict and a first path
\* that has the anchor directory once: with verify set, add_new_basepath
\* raises FileNotFoundError and leaves the dict as it is when the derived path
\* is not on the filesystem, and adds the derived path under the name when it
\* is; without verify it adds the derived path in both cases.
C25_VerifyDecidesInsertion ==
    (/\ probe.f = "add_new_basepath" /\ probe.calls = 1
     /\ ~PMHas(probe.paths, probe.system_name)
     /\ Cardinality(AnchorPositions(probe.paths[1].p, GENOMES_RELATIVE_PATH)) = 1)
        => LET new_path == probe.basepaths[1] \o <<GENOMES_RELATIVE_PATH>> \o ProbeFile
               added == Append(probe.paths, [sys |-> probe.system_name, p |-> new_path])
           IN  IF probe.verify /\ new_path \notin probe.existing
               THEN /\ ~probe.first.ok
                    /\ probe.first.raised = "FileNotFoundError"
                    /\ probe.first.v = probe.paths
               ELSE probe.first.ok /\ probe.first.v = added

\* C25 witness: verify set, a new name, and the derived path missing
C25_Witness ==
    /\ probe.f = "add_new_basepath" /\ probe.calls = 1
    /\ ~PMHas(probe.paths, probe.system_name)
    /\ probe.verify /\ probe.existing = {}
    /\ probe.first.raised = "FileNotFoundError"

\* C26 (as claimed): the derivation splits the first path at the last place the
\* anchor occurs: whenever the anchor occurs in it, once or more than once, the
\* derived path is the base, the anchor and what follows the last occurrence;
\* the derivation fails only for a path without the anchor.
C26_SplitAtLastAnchor ==
    (probe.f = "add_new_system_path" /\ probe.calls = 1)
        => LET first == probe.paths[1].p
               at == AnchorPositions(first, probe.split_keyword)
           IN  IF at = {} THEN ~probe.derived.ok
               ELSE /\ probe.derived.ok
                    /\ probe.derived.v = probe.new_basepath \o <<probe.split_keyword>>
                                            \o SubSeq(first, Max(at) + 1, Len(first))

\* both backups hold every config file with its content of before the command
BackupsComplete ==
    /\ recovery.genome.exists /\ recovery.user.exists
    /\ \A c \in DOMAIN pre.genome_registry :
          c \in DOMAIN recovery.genome.files /\ recovery.genome.files[c] = pre.genome_registry[c]
    /\ \A c \in DOMAIN pre.user_registry :
          c \in DOMAIN recovery.user.files /\ recovery.user.files[c] = pre.user_registry[c]

\* C27: in add-mountpoint and remove-mountpoint, while the backup and the edit
\* in memory are going on nothing is written: every config file and the mount
\* table are as before the command; the write phase begins with both backups
\* complete and an edited structure held for every config file; and a command
\* that failed in its backup or its edit ends with every config file and the
\* mount table as before.
C27_NothingWrittenBeforeWritePhase ==
    /\ pc \in {"backup", "edit"}
          => ConfigFilesAsBefore /\ mounts_json = pre.mounts_json /\ ~txn.wrote
    /\ pc = "write" => BackupsComplete
    /\ (pc = "write" /\ ~txn.wrote)
          => \A c \in DOMAIN genome_registry \cup DOMAIN user_registry :
                c \in DOMAIN txn.new_genomes \cup DOMAIN txn.new_genes
    /\ (/\ pc = "return" /\ last.op \in {"add_mountpoint", "remove_mountpoint"}
        /\ txn.failed \in {"backup", "edit"})
          => ConfigFilesAsBefore /\ mounts_json = pre.mounts_json

\* C27 witness: add-mountpoint on a registry with a gene failed in its edit
C27_Witness ==
    /\ Returning("add_mountpoint") /\ txn.failed = "edit"
    /\ DOMAIN user_registry # {}
    /\ ConfigFilesAsBefore

\* C28: in a mountpoint transaction the mount table differs from its content
\* of before the command only when every genome config file and every gene
\* config file has been validated and written, none of those steps having
\* failed; after a failure in the backup, the edit, a validation or the write
\* of a config file the mount table is as before.
C28_MountTableWrittenLast ==
    /\ (txn.mode # "" /\ mounts_json # pre.mounts_json)
          => /\ DOMAIN txn.new_genomes = {} /\ DOMAIN txn.new_genes = {}
             /\ txn.failed \in {"", "mounts"}
    /\ (txn.mode # "" /\ txn.failed \in {"backup", "edit", "validate", "write"})
          => mounts_json = pre.mounts_json

\* C28 witness: add-mountpoint wrote the config file of a gene, with the new
\* mount in it, and then the mount table
C28_Witness ==
    /\ Returning("add_mountpoint") /\ last.status = "ok"
    /\ mounts_json # pre.mounts_json
    /\ DOMAIN user_registry # {}
    /\ user_registry # pre.user_registry

\* C29 (as claimed): the edit of a gene's config in add mode succeeds for a
\* gene with any number of versions and puts the path derived for the new
\* mount on the fasta and on every version of the gene model.
C29_EveryVersionGetsTheMount ==
    (probe.f = "add_new_usergene_mountpoint" /\ probe.calls = 1)
        => LET gene == probe.result.v
               id == probe.gene_dict.id
           IN  /\ probe.result.ok
               /\ DOMAIN gene.gene_model = DOMAIN probe.gene_dict.gene_model
               /\ PMHas(gene.fasta.path, probe.system_name)
               /\ PMGet(gene.fasta.path, probe.system_name) = probe.mountpoint \o FastaRel(id)
               /\ \A n \in DOMAIN gene.gene_model :
                     /\ PMHas(gene.gene_model[n].path, probe.system_name)
                     /\ PMGet(gene.gene_model[n].path, probe.system_name)
                          = probe.mountpoint \o GeneDir(id) \o <<YamlName(id, n)>>

\* the entries of a path dict under every name but one are those of another dict
OtherEntriesKept(before, after, name) ==
    \A s \in SystemNames \ {name} :
       /\ PMHas(after, s) <=> PMHas(before, s)
       /\ PMHas(before, s) => PMGet(after, s) = PMGet(before, s)

\* C30: after add-mountpoint or remove-mountpoint returns, the config files
\* are those of before, with the same genomes, genes and versions, and in the
\* path dict of every asset the entry of every mount other than the one added
\* or removed is as before.
C30_OtherMountsUntouched ==
    (/\ pc = "return" /\ last.op \in {"add_mountpoint", "remove_mountpoint"}
     /\ last.status = "ok")
        => LET name == last.args[2]
           IN  /\ DOMAIN genome_registry = DOMAIN pre.genome_registry
               /\ DOMAIN user_registry = DOMAIN pre.user_registry
               /\ \A c \in DOMAIN genome_registry :
                     /\ DOMAIN genome_registry[c].genomes = DOMAIN pre.genome_registry[c].genomes
                     /\ \A g \in DOMAIN genome_registry[c].genomes, k \in GenomeAttrs :
                           OtherEntriesKept(pre.genome_registry[c].genomes[g].assets[k].path,
                                            genome_registry[c].genomes[g].assets[k].path, name)
               /\ \A c \in DOMAIN user_registry :
                     LET old == pre.user_registry[c].gene
                         new == user_registry[c].gene
                     IN  /\ OtherEntriesKept(old.fasta.path, new.fasta.path, name)
                         /\ DOMAIN new.gene_model = DOMAIN old.gene_model
                         /\ \A n \in DOMAIN new.gene_model :
                               OtherEntriesKept(old.gene_model[n].path, new.gene_model[n].path,
                                                name)

\* C30 witness: remove-mountpoint returned on a registry with a gene whose
\* files keep their path under another mount
C30_Witness ==
    /\ Returning("remove_mountpoint") /\ last.status = "ok"
    /\ \E c \in DOMAIN user_registry :
          /\ PMHas(pre.user_registry[c].gene.fasta.path, last.args[2])
          /\ Len(user_registry[c].gene.fasta.path) >= 1

\* C31: register-genome, whether it returns or raises, leaves every file that
\* was in the registry before the call on disk with its content; in
\* particular the files of the other species of the release, and with them the
\* release directory, outlast the cleanup of a failed build.
C31_RegisteredFilesUntouched ==
    Returning("register_genome")
        => \A f \in DOMAIN pre.disk : f \in DOMAIN disk /\ disk[f] = pre.disk[f]

\* C31 witness: a build failed after its files were copied, in a release that
\* holds the files of another species, and the cleanup removed its own files only
C31_Witness ==
    /\ Returning("register_genome") /\ last.status = "error"
    /\ last.failure \in {"duplicate", "write"}
    /\ pre.disk # <<>>
    /\ DirExists(ReleaseDir(last.args[3]))
    /\ ~DirExists(GenomeDir(last.args[3], last.args[4]))

\* C32 (as claimed): when register-genome fails after its files were copied
\* (the build, the load of the release's collection, the duplicate test or
\* the write of the config file failed), the error raised to the caller is
\* the error that caused the failure, also when the release directory holds
\* other species.
C32_OriginalErrorRaised ==
    (/\ Returning("register_genome") /\ last.status = "error"
     /\ last.failure \in {"mounts", "load", "duplicate", "write"})
        => last.raised = last.failure

\* C33: the validation of an asset whose file is there succeeds whatever
\* checksum the config file stores for it: it returns the freshly computed
\* fingerprint, and a stored value that differs is at most logged.
C33_MismatchNeverFails ==
    (probe.f = "add_checksum" /\ probe.calls = 1 /\ disk # <<>>)
        => /\ probe.result.ok
           /\ probe.result.v = Checksum(disk[ChecksumRel])

\* C33 witness: an asset was loaded whose stored checksum differs from the md5
\* of its file; the mismatch was logged and the load succeeded
C33_Witness ==
    /\ probe.f = "add_checksum" /\ probe.calls = 1 /\ disk # <<>>
    /\ probe.stored # NoChecksum
    /\ ~SameChecksum(probe.stored, Checksum(disk[ChecksumRel]))
    /\ probe.result.logged /\ probe.result.ok

\* C34 (as claimed): once the registry is initialised, mounts.json holds a
\* mount table that is not empty and whose default mount name is one of its keys.
C34_DefaultMountRegistered ==
    mounts_json.state # "absent"
        => /\ mounts_json.state = "ok"
           /\ mounts_json.mounts # <<>>
           /\ PMHas(mounts_json.mounts, mounts_json.default_system_name)

\* C35 (as claimed): every key of the path map of every asset in the config
\* files is a mount name of the mount table.
C35_PathKeysAreMounts ==
    mounts_json.state = "ok"
        => \A paths \in AssetPaths(genome_registry, user_registry) :
              PMKeys(paths) \subseteq PMKeys(mounts_json.mounts)

\* C36 (as claimed): the path entries of one asset differ in the mount base
\* only: there is one suffix below the anchor directory such that for every
\* mount m of the asset's path map path[m] = mounts[m]/<anchor>/<suffix>.
C36_OneSuffixPerAsset ==
    mounts_json.state = "ok"
        => \A paths \in AssetPaths(genome_registry, user_registry) :
              \E kw \in {GENOMES_RELATIVE_PATH, USER_GENES_RELATIVE_PATH} :
                 \A i \in 1..Len(paths) :
                    /\ PMHas(mounts_json.mounts, paths[i].sys)
                    /\ AnchorPositions(paths[i].p, kw) # {}
                    /\ AnchorPositions(paths[1].p, kw) # {}
                    /\ paths[i].p = JoinPath(PMGet(mounts_json.mounts, paths[i].sys), kw,
                                             RelPathAfter(paths[1].p, kw))

\* C38: the mount table holds no name twice and no registry path under two names.
C38_MountsDistinct ==
    \A i, j \in 1..Len(mounts_json.mounts) :
       i # j => /\ mounts_json.mounts[i].sys # mounts_json.mounts[j].sys
                /\ mounts_json.mounts[i].p # mounts_json.mounts[j].p

\* C38 witness: with two mounts in the table, add-mountpoint was refused for a name
\* that is not in the table because its path is registered under another name
C38_Witness ==
    /\ Returning("add_mountpoint") /\ last.status = "error" /\ last.failure = "precondition"
    /\ Len(mounts_json.mounts) = 2
    /\ ~PMHas(mounts_json.mounts, last.args[2])
    /\ \E i \in 1..Len(mounts_json.mounts) : mounts_json.mounts[i].p = last.args[1]

\* C37 (as claimed): a successful add-mountpoint of a name followed at once by
\* a successful, confirmed remove-mountpoint of that name leaves the mount
\* table and the path map of every asset as they were before the add.
C37_AddThenRemoveIsIdentity ==
    (/\ probe.f = "seeded" /\ ops = 2
     /\ Returning("remove_mountpoint") /\ last.status = "ok"
     /\ ~PMHas(probe.mounts_json.mounts, last.args[2]))
        => /\ mounts_json = probe.mounts_json
           /\ AssetPaths(genome_registry, user_registry)
                 = AssetPaths(probe.genome_registry, probe.user_registry)

\* C39 (as claimed): in a registry that successful commands built (every
\* config file readable), the edit of a confirmed remove-mountpoint of a
\* registered mount that is neither the default nor the issuing one finds the
\* mount's entry in every asset of every config file, so it does not fail.
C39_RemoveEditFindsEveryEntry ==
    (/\ probe.f = "seeded" /\ pc = "edit" /\ txn.mode = "remove"
     /\ \A c \in DOMAIN genome_registry : genome_registry[c].valid
     /\ \A c \in DOMAIN user_registry : user_registry[c].valid)
        => update_config_mountpoint(txn.registry_path, txn.system_name, txn.mode,
                                    txn.remove_system_name).ok

====
